---- MODULE Spec2Model ----
(***************************************************************************)
(* Insight generation of the Shopify dashboard backend.                    *)
(*                                                                         *)
(* State: the orders, products and insights tables, the clock, the unit of *)
(* work (session) of the generation pass, and the outcome of the last      *)
(* operation.  Operations: order/product sync, generate_insights (with     *)
(* _upsert_insight), the dismiss and action endpoints, bulk_create, the    *)
(* commit/rollback that ends get_db_context, and the passage of time.      *)
(***************************************************************************)
EXTENDS Integers, Sequences, FiniteSets, TLC

VARIABLES now, orders, products, insights, committed, session, last

vars == <<now, orders, products, insights, committed, session, last>>

(***************************************************************************)
(* Bounds of the model.                                                    *)
(***************************************************************************)
MaxRows == 2
MaxTicks == 1
\* the largest max_retries a caller of analyze_code passes (its default is 3)
MaxAttempts == 3

(***************************************************************************)
(* Program constants.                                                      *)
(***************************************************************************)
ThirtyDays == 30
SevenDays == 7
MinRecentOrders == 3
MinChangePct == 5
MinSharePct == 20
LowStockMax == 5
NameLimit == 3
PayloadLimit == 5

\* the day the model starts at, and the days that pass in one step of the
\* clock: what was within seven days is then only within thirty
StartDay == ThirtyDays + 10
JumpDays == ThirtyDays - SevenDays + 1

\* a null timestamp, a null/empty identifier, a null link
None == -1
NoId == ""
NoLink == "None"

Shops == {"s1", "s2"}

TREND == "trend_detection"
PRICING == "pricing_opportunity"
INVENTORY == "inventory_alert"
UNDERSTOCKED == "understocked_winner"
OVERSTOCK == "overstock_slow_mover"
COUPON == "coupon_cannibalization"

GeneratorTypes == {TREND, PRICING, INVENTORY}

(***************************************************************************)
(* Arithmetic helpers: Python's round()/format() round half to even.       *)
(***************************************************************************)
Abs(x) == IF x < 0 THEN 0 - x ELSE x

Sign(x) == IF x < 0 THEN 0 - 1 ELSE 1

\* round(n / d) for n >= 0, d > 0, ties to even
RoundHalfEvenNat(n, d) ==
    LET q == n \div d
        r == n % d
    IN  IF 2 * r < d THEN q
        ELSE IF 2 * r > d THEN q + 1
        ELSE IF q % 2 = 0 THEN q ELSE q + 1

\* round(n / d) for d > 0 and any sign of n
RoundHalfEven(n, d) == Sign(n) * RoundHalfEvenNat(Abs(n), d)

RECURSIVE Gcd(_, _)
Gcd(a, b) == IF b = 0 THEN a ELSE Gcd(b, a % b)

\* a float quotient n / d (d > 0), kept exact as a reduced fraction
Frac(n, d) ==
    LET g == Gcd(Abs(n), d)
    IN  IF n = 0 THEN <<0, 1>> ELSE <<n \div g, d \div g>>

Min(a, b) == IF a < b THEN a ELSE b

\* s[:n]
Take(s, n) == SubSeq(s, 1, Min(n, Len(s)))

(***************************************************************************)
(* The shop's data on the Shopify side: the orders that can be pulled      *)
(* (each with the day it was processed) and the product listings.          *)
(***************************************************************************)
\* a stored line item: data_sync writes the keys title, quantity, amount and
\* product_id; a raw Shopify line item carries the nested product.id instead
Item(title, pid, amount, qty) ==
    [title |-> title, product_id |-> pid, product |-> NoId,
     amount |-> amount, original_total |-> 0, quantity |-> qty]

\* day 0 is more than thirty days before StartDay, day 20 is within thirty
\* but not within seven, day 40 is StartDay itself; money amounts (a Numeric
\* with two decimals, or the float of one) are in cents
ShopifyOrders ==
    << [id |-> 1, shop_id |-> "s1", processed_at |-> 0, total_price |-> 20,
        line_items |-> <<Item("A", "pA", 20, 2)>>, discount_codes |-> <<>>],
       [id |-> 2, shop_id |-> "s1", processed_at |-> 40, total_price |-> 10,
        line_items |-> <<Item("A", "pA", 10, 1)>>, discount_codes |-> <<>>],
       [id |-> 3, shop_id |-> "s1", processed_at |-> 40, total_price |-> 10,
        line_items |-> <<>>, discount_codes |-> <<"SAVE">>],
       [id |-> 4, shop_id |-> "s1", processed_at |-> 40, total_price |-> 10,
        line_items |-> <<Item("A", "pA", 10, 3)>>, discount_codes |-> <<"SAVE">>],
       [id |-> 5, shop_id |-> "s1", processed_at |-> 20, total_price |-> 4,
        line_items |-> <<Item("B", "pB", 4, 1)>>, discount_codes |-> <<>>],
       [id |-> 6, shop_id |-> "s1", processed_at |-> 20, total_price |-> 400,
        line_items |-> <<>>, discount_codes |-> <<>>],
       [id |-> 7, shop_id |-> "s2", processed_at |-> 40, total_price |-> 20,
        line_items |-> <<Item("C", "pC", 20, 1)>>, discount_codes |-> <<>>] >>

\* how many of these orders Shopify holds when a sync pulls them
Pulls == {1, 5, 7}

Prod(id, shop, title, inv, tracked, status) ==
    [id |-> id, shop_id |-> shop, title |-> title, total_inventory |-> inv,
     inventory_tracked |-> tracked, status |-> status]

ShopifyProducts ==
    { <<Prod("pA", "s1", "A", 3, TRUE, "active")>>,
      <<Prod("pA", "s1", "A", 50, TRUE, "active"),
        Prod("pB", "s1", "B", 10, TRUE, "active"),
        Prod("pD", "s1", "D", 10, TRUE, "active"),
        Prod("pE", "s1", "E", 10, TRUE, "active"),
        Prod("pF", "s1", "F", 10, TRUE, "active"),
        Prod("pG", "s1", "G", 10, FALSE, "draft")>>,
      <<Prod("pC", "s2", "C", 50, TRUE, "active")>> }

(***************************************************************************)
(* Queries of generate_insights over the orders and products tables.       *)
(***************************************************************************)
\* SELECT ... FROM orders WHERE shop_id = :shop AND processed_at >= :cutoff
OrdersSince(ords, shop, cutoff) ==
    SelectSeq(ords, LAMBDA o : o.shop_id = shop /\ o.processed_at >= cutoff)

RECURSIVE SumPrice(_)
SumPrice(ords) ==
    IF ords = <<>> THEN 0 ELSE ords[1].total_price + SumPrice(Tail(ords))

\* count(Order.id), sum(Order.total_price)
OrderStats(ords, shop, cutoff) ==
    LET sel == OrdersSince(ords, shop, cutoff)
    IN  [orders |-> Len(sel), revenue |-> SumPrice(sel)]

RECURSIVE Flatten(_)
Flatten(ss) == IF ss = <<>> THEN <<>> ELSE ss[1] \o Flatten(Tail(ss))

\* the line items of the window's orders, in row order
WindowItems(ords, shop, cutoff) ==
    LET sel == OrdersSince(ords, shop, cutoff)
    IN  Flatten([i \in 1..Len(sel) |-> sel[i].line_items])

\* item.get("product_id") or (item.get("product", {}) or {}).get("id")
ItemProductId(item) ==
    IF item.product_id # NoId THEN item.product_id ELSE item.product

\* the product_revenue dict, as the sequence of its entries in insertion order
RECURSIVE ProductRevenue(_, _)
ProductRevenue(items, acc) ==
    IF items = <<>> THEN acc
    ELSE LET item == items[1]
             pid == ItemProductId(item)
             at == {k \in 1..Len(acc) : acc[k].id = pid}
         IN  IF pid = NoId THEN ProductRevenue(Tail(items), acc)
             ELSE IF at = {}
             THEN ProductRevenue(Tail(items),
                      Append(acc, [id |-> pid, title |-> item.title,
                                   revenue |-> item.amount,
                                   quantity |-> item.quantity]))
             ELSE LET k == CHOOSE j \in at : TRUE
                  IN  ProductRevenue(Tail(items),
                          [acc EXCEPT ![k].revenue = @ + item.amount,
                                      ![k].quantity = @ + item.quantity])

\* max(product_revenue.items(), key=revenue): the first entry of maximal revenue
TopProduct(pr) ==
    LET k == CHOOSE j \in 1..Len(pr) :
                 /\ \A m \in 1..Len(pr) : pr[m].revenue <= pr[j].revenue
                 /\ \A m \in 1..(j - 1) : pr[m].revenue < pr[j].revenue
    IN  pr[k]

\* a variant of the SELECT without the inventory_tracked filter
LowStockProductsUntracked(prods, shop) ==
    SelectSeq(prods, LAMBDA p : /\ p.shop_id = shop
                                /\ p.total_inventory <= LowStockMax
                                /\ p.total_inventory > 0
                                /\ p.status = "active")

\* SELECT products WHERE tracked AND total_inventory <= 5 AND > 0 AND active
LowStockProducts(prods, shop) ==
    SelectSeq(prods, LAMBDA p : /\ p.shop_id = shop
                                /\ p.inventory_tracked = TRUE
                                /\ p.total_inventory <= LowStockMax
                                /\ p.total_inventory > 0
                                /\ p.status = "active")

(***************************************************************************)
(* The candidates of generate_insights.  A formatted text is kept as the   *)
(* tuple of its variable parts, each rounded as the format rounds it.      *)
(***************************************************************************)
\* f"{n/d:.2f}" of an amount of n / d cents, in cents
Money(n, d) == RoundHalfEven(n, d)

\* abs(aov_change) >= 5 is evaluated in double precision.  Away from an exact
\* change of 5% the doubles decide as the exact quotients do; at an exact
\* change of 5% the rounding of aov_30d, aov_7d and of their quotient decides.
\* These are the inputs <<total_orders, total_revenue, recent_orders,
\* recent_revenue>> with at most 8 orders and a revenue of at most 80 cents
\* whose exact change is 5% and whose double result is below 5; the other
\* exact changes of 5% that the order catalogs produce are at least 5 in
\* doubles too.
RoundsBelowFive ==
    {
      <<3, 20, 3, 19>>, <<3, 40, 3, 38>>, <<3, 80, 3, 76>>, <<4, 80, 3, 63>>,
      <<5, 25, 4, 21>>, <<5, 50, 4, 42>>, <<6, 20, 6, 19>>, <<6, 24, 5, 21>>,
      <<6, 30, 4, 19>>, <<6, 40, 3, 19>>, <<6, 40, 3, 21>>, <<6, 40, 5, 35>>,
      <<6, 40, 6, 38>>, <<6, 48, 5, 42>>, <<6, 50, 4, 35>>, <<6, 60, 4, 38>>,
      <<6, 80, 3, 38>>, <<6, 80, 3, 42>>, <<6, 80, 5, 70>>, <<6, 80, 6, 76>>,
      <<7, 5, 4, 3>>, <<7, 10, 4, 6>>, <<7, 10, 6, 9>>, <<7, 12, 5, 9>>,
      <<7, 15, 4, 9>>, <<7, 20, 3, 9>>, <<7, 20, 4, 12>>, <<7, 20, 5, 15>>,
      <<7, 20, 6, 18>>, <<7, 24, 5, 18>>, <<7, 28, 5, 21>>, <<7, 30, 4, 18>>,
      <<7, 35, 4, 19>>, <<7, 40, 3, 18>>, <<7, 40, 4, 24>>, <<7, 40, 5, 30>>,
      <<7, 40, 6, 36>>, <<7, 44, 5, 33>>, <<7, 45, 4, 27>>, <<7, 48, 5, 36>>,
      <<7, 52, 5, 39>>, <<7, 55, 4, 33>>, <<7, 56, 5, 42>>, <<7, 60, 4, 36>>,
      <<7, 60, 5, 45>>, <<7, 68, 5, 51>>, <<7, 70, 4, 38>>, <<7, 76, 5, 57>>,
      <<7, 80, 3, 36>>, <<7, 80, 4, 48>>, <<7, 80, 5, 60>>, <<7, 80, 6, 72>>,
      <<8, 32, 5, 21>>, <<8, 40, 4, 21>>, <<8, 64, 5, 42>>, <<8, 80, 4, 42>>,
      <<8, 80, 6, 63>>
    }

\* if abs(aov_change) >= 5, for aov_30d > 0 and recent_orders > 0
ChangeAtLeastFive(to, tr, ro, rr) ==
    LET num == (rr * to - tr * ro) * 100
        den == tr * ro
    IN  IF Abs(num) = MinChangePct * den
        THEN <<to, tr, ro, rr>> \notin RoundsBelowFive
        ELSE Abs(num) > MinChangePct * den

\* Insight 1: AOV trend, from the 30-day and the 7-day statistics
TrendCandidate(stats, recent) ==
    LET to == stats.orders
        tr == stats.revenue
        ro == recent.orders
        rr == recent.revenue
        \* aov_change = (aov_7d - aov_30d) / aov_30d * 100 = num / den
        num == (rr * to - tr * ro) * 100
        den == tr * ro
    IN  IF ~(to > 0 /\ tr > 0 /\ ro >= MinRecentOrders) THEN <<>>
        ELSE IF ~ChangeAtLeastFive(to, tr, ro, rr) THEN <<>>
        ELSE << [type |-> TREND,
                 severity |-> IF num > 0 THEN "low" ELSE "medium",
                 title |-> <<IF num > 0 THEN "up" ELSE "dropped",
                             RoundHalfEven(Abs(num), den)>>,
                 action_summary |-> <<IF num > 0 THEN "increased" ELSE "fell",
                                      Money(tr, to), Money(rr, ro)>>,
                 expected_uplift |-> <<"AOV target", Money(tr, to)>>,
                 confidence |-> 85,
                 payload |-> [aov_30d |-> Frac(tr, to), aov_7d |-> Frac(rr, ro),
                              change_pct |-> RoundHalfEven(num * 10, den)],
                 admin_deep_link |-> NoLink] >>

\* revenue_share >= 20 is evaluated in double precision.  These are the inputs
\* <<top revenue, total_revenue>> with a total of less than 1200 cents whose
\* exact share is 20% and whose double result is below 20.
RoundsBelowTwenty == { <<113, 565>>, <<201, 1005>>, <<226, 1130>> }

\* if revenue_share >= 20, for total_revenue > 0
ShareAtLeastTwenty(rev, tr) ==
    IF rev * 100 = MinSharePct * tr
    THEN <<rev, tr>> \notin RoundsBelowTwenty
    ELSE rev * 100 > MinSharePct * tr

\* Insight 2: top product by revenue
PricingCandidate(stats, items) ==
    LET pr == ProductRevenue(items, <<>>)
        top == TopProduct(pr)
        tr == stats.revenue
        \* revenue_share = top.revenue / total_revenue * 100, 0 if no revenue
        fires == IF tr > 0 THEN ShareAtLeastTwenty(top.revenue, tr)
                 ELSE 0 >= MinSharePct
    IN  IF pr = <<>> THEN <<>>
        ELSE IF ~fires THEN <<>>
        ELSE << [type |-> PRICING,
                 severity |-> "medium",
                 title |-> <<top.title, RoundHalfEven(top.revenue * 100, tr)>>,
                 action_summary |-> <<Money(top.revenue, 1), top.quantity>>,
                 expected_uplift |-> <<"5% price test",
                                       RoundHalfEven(top.revenue * 5, 10000)>>,
                 confidence |-> 90,
                 payload |-> [product_id |-> top.id, product_title |-> top.title,
                              revenue |-> top.revenue, units |-> top.quantity,
                              revenue_share_pct |->
                                  RoundHalfEven(top.revenue * 1000, tr)],
                 admin_deep_link |-> NoLink] >>

\* Insight 3: low inventory alert
InventoryCandidate(low) ==
    LET k == Len(low)
        names == [i \in 1..Min(NameLimit, k) |-> low[i].title]
        more == IF k > NameLimit THEN k - NameLimit ELSE 0
        shown == Take(low, PayloadLimit)
    IN  IF low = <<>> THEN <<>>
        ELSE << [type |-> INVENTORY,
                 severity |-> "high",
                 title |-> <<k, IF k > 1 THEN "products" ELSE "product">>,
                 action_summary |-> <<names, more>>,
                 expected_uplift |-> <<"Prevent stockout lost revenue">>,
                 confidence |-> 95,
                 payload |-> [low_stock_count |-> k,
                              products |-> [i \in 1..Len(shown) |->
                                  [id |-> shown[i].id, title |-> shown[i].title,
                                   inventory |-> shown[i].total_inventory]]],
                 admin_deep_link |-> "/products?inventory_quantity_max=5"] >>

(***************************************************************************)
(* InsightsEngine: the percentile analyzers over (products, orders).       *)
(***************************************************************************)
\* _get_products
GetProducts(prods, shop) == SelectSeq(prods, LAMBDA p : p.shop_id = shop)

\* _get_recent_orders
GetRecentOrders(ords, shop, t, days) == OrdersSince(ords, shop, t - days)

\* the items of the orders, each with the discount codes of its order
RECURSIVE OrderItems(_)
OrderItems(ords) ==
    IF ords = <<>> THEN <<>>
    ELSE [i \in 1..Len(ords[1].line_items) |->
             [item |-> ords[1].line_items[i],
              discounted |-> ords[1].discount_codes # <<>>]]
         \o OrderItems(Tail(ords))

\* item.get("product", {}).get("id")
EngineProductId(item) == item.product

\* sales_by_product: product id -> units, as a sequence of entries
RECURSIVE SalesByProduct(_, _)
SalesByProduct(ois, acc) ==
    IF ois = <<>> THEN acc
    ELSE LET item == ois[1].item
             pid == EngineProductId(item)
             at == {k \in 1..Len(acc) : acc[k].id = pid}
         IN  IF pid = NoId THEN SalesByProduct(Tail(ois), acc)
             ELSE IF at = {}
             THEN SalesByProduct(Tail(ois),
                      Append(acc, [id |-> pid, units |-> item.quantity]))
             ELSE SalesByProduct(Tail(ois),
                      [acc EXCEPT ![CHOOSE k \in at : TRUE].units = @ + item.quantity])

\* sales_by_product.get(pid, 0)
SalesOf(sbp, pid) ==
    LET at == {k \in 1..Len(sbp) : sbp[k].id = pid}
    IN  IF at = {} THEN 0 ELSE sbp[CHOOSE k \in at : TRUE].units

\* list.sort() of a sequence of numbers
RECURSIVE SortAsc(_)
SortAsc(s) ==
    IF s = <<>> THEN <<>>
    ELSE LET k == CHOOSE i \in 1..Len(s) : \A j \in 1..Len(s) : s[i] <= s[j]
         IN  <<s[k]>> \o SortAsc(SubSeq(s, 1, k - 1) \o SubSeq(s, k + 1, Len(s)))

\* len(sales_values) // 2
MedianIndex(n) == n \div 2

\* a variant of the index that reads the median
PercentileIndexMedian(n, num) == n \div 2

\* a variant of the index that rounds up
PercentileIndexUp(n, num) == (n * num + 9) \div 10

\* int(n * 0.8), int(n * 0.2), int(n * 0.6): num is the percentile in tenths;
\* the float product truncates to the exact floor for every n below 2000
PercentileIndex(n, num) == (n * num) \div 10

\* values[int(len(values) * num / 10)] with 0-based indexing
PercentileAt(sorted, num) == sorted[PercentileIndex(Len(sorted), num) + 1]

\* a variant without the guard on the daily sales rate
DailySalesAny(sales) == TRUE

\* daily_sales = sales / 30; if daily_sales <= 0: continue
DailySalesPositive(sales) == ~(sales <= 0)

\* _compute_understocked_winners
ComputeUnderstockedWinners(prods, ords) ==
    LET sbp == SalesByProduct(OrderItems(ords), <<>>)
        vals == SortAsc([i \in 1..Len(sbp) |-> sbp[i].units])
        p50 == vals[MedianIndex(Len(vals)) + 1]
        Fires(p) == LET sales == SalesOf(sbp, p.id)
                    IN  /\ ~(sales < p50)
                        /\ DailySalesPositive(sales)
                        \* days_remaining = total_inventory / (sales / 30) < 7
                        /\ p.total_inventory * ThirtyDays < SevenDays * sales
        hit == SelectSeq(prods, Fires)
    IN  IF sbp = <<>> THEN <<>>
        ELSE [i \in 1..Len(hit) |->
                [type |-> UNDERSTOCKED, severity |-> "high",
                 title |-> <<"Low stock alert", hit[i].title>>,
                 action_summary |-> <<hit[i].total_inventory,
                     RoundHalfEven(hit[i].total_inventory * ThirtyDays,
                                   SalesOf(sbp, hit[i].id))>>,
                 expected_uplift |-> <<"Prevent stockout revenue loss">>,
                 confidence |-> 85,
                 payload |-> [product_id |-> hit[i].id,
                              product_title |-> hit[i].title,
                              current_inventory |-> hit[i].total_inventory,
                              daily_sales |->
                                  RoundHalfEven(SalesOf(sbp, hit[i].id) * 100,
                                                ThirtyDays),
                              days_remaining |->
                                  RoundHalfEven(hit[i].total_inventory * ThirtyDays * 10,
                                                SalesOf(sbp, hit[i].id))],
                 admin_deep_link |-> <<"/products/", hit[i].id>>]]

\* _compute_overstock_slow_movers
ComputeOverstockSlowMovers(prods, ords) ==
    LET sbp == SalesByProduct(OrderItems(ords), <<>>)
        stocked == SelectSeq(prods, LAMBDA p : p.total_inventory > 0)
        inventories == SortAsc([i \in 1..Len(stocked) |-> stocked[i].total_inventory])
        sales_values == SortAsc([i \in 1..Len(prods) |-> SalesOf(sbp, prods[i].id)])
        p80 == PercentileAt(inventories, 8)
        p20 == PercentileAt(sales_values, 2)
        hit == SelectSeq(prods, LAMBDA p : /\ p.total_inventory > p80
                                           /\ SalesOf(sbp, p.id) <= p20)
    IN  IF inventories = <<>> \/ sales_values = <<>> THEN <<>>
        ELSE [i \in 1..Len(hit) |->
                [type |-> OVERSTOCK, severity |-> "medium",
                 title |-> <<"Dead stock detected", hit[i].title>>,
                 action_summary |-> <<hit[i].total_inventory,
                                      SalesOf(sbp, hit[i].id)>>,
                 expected_uplift |-> <<"Clear dead stock value">>,
                 confidence |-> 75,
                 payload |-> [product_id |-> hit[i].id,
                              product_title |-> hit[i].title,
                              current_inventory |-> hit[i].total_inventory,
                              units_sold_30d |-> SalesOf(sbp, hit[i].id)],
                 admin_deep_link |-> <<"/products/", hit[i].id>>]]

\* product_metrics: per product title, revenue, discounted and total counts
RECURSIVE ProductMetrics(_, _)
ProductMetrics(ois, acc) ==
    IF ois = <<>> THEN acc
    ELSE LET item == ois[1].item
             pid == EngineProductId(item)
             at == {k \in 1..Len(acc) : acc[k].id = pid}
             d == IF ois[1].discounted THEN 1 ELSE 0
         IN  IF pid = NoId THEN ProductMetrics(Tail(ois), acc)
             ELSE IF at = {}
             THEN ProductMetrics(Tail(ois),
                      Append(acc, [id |-> pid, title |-> item.title,
                                   total_revenue |-> item.original_total,
                                   discounted_orders |-> d, total_orders |-> 1]))
             ELSE LET k == CHOOSE j \in at : TRUE
                  IN  ProductMetrics(Tail(ois),
                          [acc EXCEPT ![k].total_revenue = @ + item.original_total,
                                      ![k].discounted_orders = @ + d,
                                      ![k].total_orders = @ + 1])

\* _compute_coupon_cannibalization
ComputeCouponCannibalization(ords) ==
    LET pm == ProductMetrics(OrderItems(ords), <<>>)
        revenues == SortAsc([i \in 1..Len(pm) |-> pm[i].total_revenue])
        p60 == PercentileAt(revenues, 6)
        \* discount_rate = discounted_orders / total_orders > 0.4
        hit == SelectSeq(pm, LAMBDA m : /\ m.total_orders # 0
                                        /\ m.discounted_orders * 10 > 4 * m.total_orders
                                        /\ m.total_revenue > p60)
    IN  IF revenues = <<>> THEN <<>>
        ELSE [i \in 1..Len(hit) |->
                [type |-> COUPON, severity |-> "medium",
                 title |-> <<"Coupon overuse", hit[i].title>>,
                 action_summary |->
                     <<RoundHalfEven(hit[i].discounted_orders * 100,
                                     hit[i].total_orders)>>,
                 expected_uplift |-> <<"Reduce margin leakage">>,
                 confidence |-> 70,
                 payload |-> [product_id |-> hit[i].id,
                              product_title |-> hit[i].title,
                              discount_rate |->
                                  RoundHalfEven(hit[i].discounted_orders * 100,
                                                hit[i].total_orders),
                              total_revenue |-> hit[i].total_revenue],
                 admin_deep_link |-> "/discounts"]]

\* compute_all_insights
ComputeAllInsights(prods, ords, shop, t) ==
    LET ps == GetProducts(prods, shop)
        os == GetRecentOrders(ords, shop, t, ThirtyDays)
    IN  IF ps = <<>> \/ os = <<>> THEN <<>>
        ELSE ComputeUnderstockedWinners(ps, os)
             \o ComputeOverstockSlowMovers(ps, os)
             \o ComputeCouponCannibalization(os)

(***************************************************************************)
(* The insights table.  A row is flushed once its INSERT has been sent; a  *)
(* row added in the running unit of work is pending until the flush.       *)
(***************************************************************************)
MutableFields(c) ==
    [severity |-> c.severity, title |-> c.title,
     action_summary |-> c.action_summary, expected_uplift |-> c.expected_uplift,
     confidence |-> c.confidence, payload |-> c.payload,
     admin_deep_link |-> c.admin_deep_link]

\* Insight(shop_id=..., type=..., ...): lifecycle columns default to null
NewInsight(id, shop, c, expires) ==
    [id |-> id, shop_id |-> shop, type |-> c.type,
     severity |-> c.severity, title |-> c.title,
     action_summary |-> c.action_summary, expected_uplift |-> c.expected_uplift,
     confidence |-> c.confidence, payload |-> c.payload,
     admin_deep_link |-> c.admin_deep_link,
     dismissed_at |-> None, actioned_at |-> None,
     created_at |-> None, expires_at |-> expires, flushed |-> FALSE]

\* Insight.is_active
IsActive(i, t) ==
    IF i.dismissed_at # None THEN FALSE
    ELSE IF i.expires_at # None /\ i.expires_at < t THEN FALSE
    ELSE TRUE

\* default=uuid4: an identifier no row of the table carries
FreshId(rows) == Len(rows) + 1

\* a variant of the SELECT whose dismissal filter is inverted
FindActiveDismissed(rows, shop, type) ==
    {k \in 1..Len(rows) : /\ rows[k].flushed
                          /\ rows[k].shop_id = shop
                          /\ rows[k].type = type
                          /\ rows[k].dismissed_at # None}

\* a variant of the SELECT without the dismissal filter
FindActiveAnyRow(rows, shop, type) ==
    {k \in 1..Len(rows) : /\ rows[k].flushed
                          /\ rows[k].shop_id = shop
                          /\ rows[k].type = type}

\* a variant of the SELECT without the shop filter
FindActiveAnyShop(rows, shop, type) ==
    {k \in 1..Len(rows) : /\ rows[k].flushed
                          /\ rows[k].type = type
                          /\ rows[k].dismissed_at = None}

\* the rows the SELECT of _upsert_insight returns: the session does not
\* autoflush, so the query sees flushed rows only
FindActive(rows, shop, type) ==
    {k \in 1..Len(rows) : /\ rows[k].flushed
                          /\ rows[k].shop_id = shop
                          /\ rows[k].type = type
                          /\ rows[k].dismissed_at = None}

\* a variant of the update that refreshes the confidence of every row
OverwrittenAllConfidences(rows, k, c) ==
    [j \in 1..Len(rows) |->
        IF j = k
        THEN [rows[j] EXCEPT !.title = c.title,
                             !.action_summary = c.action_summary,
                             !.expected_uplift = c.expected_uplift,
                             !.confidence = c.confidence,
                             !.payload = c.payload]
        ELSE [rows[j] EXCEPT !.confidence = c.confidence]]

\* a variant of the update that writes the severity to every row of the shop
OverwrittenAllSeverities(rows, k, c) ==
    [j \in 1..Len(rows) |->
        IF j = k
        THEN [rows[j] EXCEPT !.title = c.title,
                             !.action_summary = c.action_summary,
                             !.expected_uplift = c.expected_uplift,
                             !.confidence = c.confidence,
                             !.payload = c.payload,
                             !.admin_deep_link = c.admin_deep_link,
                             !.severity = c.severity]
        ELSE IF rows[j].shop_id = rows[k].shop_id
        THEN [rows[j] EXCEPT !.severity = c.severity]
        ELSE rows[j]]

\* the content fields of row k overwritten from candidate c
Overwritten(rows, k, c) ==
    [rows EXCEPT ![k].title = c.title,
                 ![k].action_summary = c.action_summary,
                 ![k].expected_uplift = c.expected_uplift,
                 ![k].confidence = c.confidence,
                 ![k].payload = c.payload,
                 ![k].admin_deep_link = c.admin_deep_link,
                 ![k].severity = c.severity]

\* a variant of _upsert_insight that counts an update as a creation
UpsertInsightCountsUpdate(rows, shop, c) ==
    LET found == FindActive(rows, shop, c.type)
    IN  IF Cardinality(found) > 1
        THEN [rows |-> rows, ret |-> 0, raised |-> TRUE]
        ELSE IF found # {}
        THEN [rows |-> Overwritten(rows, CHOOSE j \in found : TRUE, c),
              ret |-> 1, raised |-> FALSE]
        ELSE [rows |-> Append(rows, NewInsight(Len(rows) + 1, shop, c, None)),
              ret |-> 1, raised |-> FALSE]

\* a variant of _upsert_insight that inserts without looking for a row
UpsertInsightInsertOnly(rows, shop, c) ==
    [rows |-> Append(rows, NewInsight(Len(rows) + 1, shop, c, None)),
     ret |-> 1, raised |-> FALSE]

\* a variant of _upsert_insight whose update also clears the expiry
UpsertInsightRenew(rows, shop, c) ==
    LET found == FindActive(rows, shop, c.type)
    IN  IF Cardinality(found) > 1
        THEN [rows |-> rows, ret |-> 0, raised |-> TRUE]
        ELSE IF found # {}
        THEN LET k == CHOOSE j \in found : TRUE
             IN  [rows |-> [Overwritten(rows, k, c) EXCEPT ![k].expires_at = None],
                  ret |-> 0, raised |-> FALSE]
        ELSE [rows |-> Append(rows, NewInsight(Len(rows) + 1, shop, c, None)),
              ret |-> 1, raised |-> FALSE]

\* _upsert_insight: the rows afterwards, the value returned, and whether
\* scalar_one_or_none raised because several rows matched
UpsertInsight(rows, shop, c) ==
    LET found == FindActive(rows, shop, c.type)
    IN  IF Cardinality(found) > 1
        THEN [rows |-> rows, ret |-> 0, raised |-> TRUE]
        ELSE IF found # {}
        THEN LET k == CHOOSE j \in found : TRUE
             IN  [rows |-> Overwritten(rows, k, c), ret |-> 0, raised |-> FALSE]
        ELSE [rows |-> Append(rows, NewInsight(FreshId(rows), shop, c, None)),
              ret |-> 1, raised |-> FALSE]

\* a variant of the flush that stamps created_at on every row it writes
FlushRestamp(rows, t) ==
    [k \in 1..Len(rows) |-> [rows[k] EXCEPT !.flushed = TRUE, !.created_at = t]]

\* session.flush(): pending rows are inserted, created_at takes the server time
Flush(rows, t) ==
    [k \in 1..Len(rows) |->
        IF rows[k].flushed THEN rows[k]
        ELSE [rows[k] EXCEPT !.flushed = TRUE, !.created_at = t]]

(***************************************************************************)
(* generate_insights.  failAt names the statement that raises in this run  *)
(* ("none": no statement fails by itself).                                 *)
(***************************************************************************)
FailPoints ==
    {"none", "stats", "recent", "upsert_trend", "items", "upsert_pricing",
     "low_stock", "upsert_inventory", "flush"}

\* a variant in which the flush is left outside the try block
TryBlockBeforeFlush ==
    {"stats", "recent", "upsert_trend", "items", "upsert_pricing",
     "low_stock", "upsert_inventory"}

\* the statements inside try: ... except Exception
TryBlock ==
    {"stats", "recent", "upsert_trend", "items", "upsert_pricing",
     "low_stock", "upsert_inventory", "flush"}

\* a variant without the early return
NoOrdersNever(stats) == FALSE

\* if total_orders == 0: return 0
NoOrders(stats) == stats.orders = 0

\* a query that may raise
QueryStep(st, point, failAt) ==
    IF st.raised THEN st
    ELSE IF failAt = point THEN [st EXCEPT !.raised = TRUE, !.failAt = point]
    ELSE st

\* count += await _upsert_insight(...) for the candidate, if there is one
UpsertStep(st, cands, shop, point, failAt) ==
    IF st.raised \/ cands = <<>> THEN st
    ELSE IF failAt = point THEN [st EXCEPT !.raised = TRUE, !.failAt = point]
    ELSE LET u == UpsertInsight(st.rows, shop, cands[1])
         IN  IF u.raised THEN [st EXCEPT !.raised = TRUE, !.failAt = point]
             ELSE [st EXCEPT !.rows = u.rows,
                             !.count = @ + u.ret,
                             !.cands = Append(@, cands[1])]

GenerateInsightsRun(ords, prods, rows, t, shop, failAt) ==
    LET st0 == [rows |-> rows, count |-> 0, raised |-> FALSE,
                failAt |-> "none", cands |-> <<>>]
        stats == OrderStats(ords, shop, t - ThirtyDays)
        recent == OrderStats(ords, shop, t - SevenDays)
        items == WindowItems(ords, shop, t - ThirtyDays)
        low == LowStockProducts(prods, shop)
        a1 == QueryStep(st0, "stats", failAt)
        a2 == QueryStep(a1, "recent", failAt)
        a3 == UpsertStep(a2, TrendCandidate(stats, recent), shop,
                         "upsert_trend", failAt)
        a4 == QueryStep(a3, "items", failAt)
        a5 == UpsertStep(a4, PricingCandidate(stats, items), shop,
                         "upsert_pricing", failAt)
        a6 == QueryStep(a5, "low_stock", failAt)
        a7 == UpsertStep(a6, InventoryCandidate(low), shop,
                         "upsert_inventory", failAt)
        a8 == QueryStep(a7, "flush", failAt)
        done == IF a8.raised THEN a8
                ELSE [a8 EXCEPT !.rows = Flush(a8.rows, t)]
        out == IF ~a1.raised /\ NoOrders(stats) THEN st0 @@ [ret |-> 0]
               ELSE done @@ [ret |-> done.count]
    IN  \* an exception raised outside the try block reaches the caller
        IF out.failAt \in TryBlock \cup {"none"} THEN out @@ [escaped |-> FALSE]
        ELSE [out EXCEPT !.ret = None] @@ [escaped |-> TRUE]

(***************************************************************************)
(* State machine.                                                          *)
(***************************************************************************)
\* the outcome of the last operation: for generate_insights the shop, whether
\* a statement raised (failAt "none" or "error"), whether the exception reached
\* the caller, the value returned and the types reconciled; for a commit the
\* shop and failure of the pass it ends
Outcome(op) ==
    [op |-> op, shop |-> NoId, failAt |-> "none", escaped |-> FALSE,
     ret |-> 0, types |-> <<>>]

Init ==
    /\ now = StartDay
    /\ orders = <<>>
    /\ products = <<>>
    /\ insights = <<>>
    /\ committed = <<>>
    /\ session = "closed"
    /\ last = Outcome("env")

\* the orders table after upserting the pulled orders (rows kept in id order)
UpsertOrders(ords, pulled) ==
    SelectSeq(ShopifyOrders,
              LAMBDA o : o.id \in pulled \/ \E k \in 1..Len(ords) : ords[k].id = o.id)

\* INSERT ... ON CONFLICT (id) DO UPDATE for each product of the feed
RECURSIVE UpsertProducts(_, _)
UpsertProducts(prods, feed) ==
    IF feed = <<>> THEN prods
    ELSE LET p == feed[1]
             at == {k \in 1..Len(prods) : prods[k].id = p.id}
         IN  IF at = {} THEN UpsertProducts(Append(prods, p), Tail(feed))
             ELSE UpsertProducts(
                      [prods EXCEPT ![CHOOSE k \in at : TRUE] = p], Tail(feed))

\* the shop's orders among the first n that Shopify holds
PulledOrders(shop, n) ==
    {ShopifyOrders[k].id : k \in {j \in 1..Len(ShopifyOrders) :
                                      /\ ShopifyOrders[j].shop_id = shop
                                      /\ j <= n}}

\* sync_shop_data: _sync_products, then _sync_orders
SyncShopData(shop) ==
    /\ session = "closed"
    /\ \E feed \in ShopifyProducts :
          /\ feed[1].shop_id = shop
          /\ products' = UpsertProducts(products, feed)
    /\ \E n \in Pulls : orders' = UpsertOrders(orders, PulledOrders(shop, n))
    /\ <<products', orders'>> # <<products, orders>>
    /\ last' = Outcome("env")
    /\ UNCHANGED <<now, insights, committed, session>>

\* time passes
Tick ==
    /\ session = "closed"
    /\ now + JumpDays <= StartDay + MaxTicks * JumpDays
    /\ now' = now + JumpDays
    /\ last' = Outcome("env")
    /\ UNCHANGED <<orders, products, insights, committed, session>>

\* a variant whose except clause rolls the session back
SessionAfterRollback(before, r) ==
    IF r.failAt # "none" THEN before ELSE r.rows

\* the rows of the session when generate_insights returns: the except clause
\* logs the exception and nothing else
SessionAfter(before, r) == r.rows

\* generate_insights(session, shop_id) in a fresh unit of work, while the
\* table holds at most maxRows rows
GenerateInsightsWithin(shop, failAt, maxRows) ==
    /\ session = "closed"
    /\ \E r \in {GenerateInsightsRun(orders, products, insights, now, shop, failAt)} :
           /\ failAt = "none" \/ r.failAt = failAt
           /\ Len(r.rows) <= maxRows
           /\ insights' = SessionAfter(insights, r)
           /\ session' = IF r.failAt = "flush" \/ r.escaped THEN "failed"
                          ELSE "open"
           /\ last' = [Outcome("gen") EXCEPT
                           !.shop = shop,
                           !.failAt = IF r.failAt = "none" THEN "none" ELSE "error",
                           !.escaped = r.escaped,
                           !.ret = r.ret,
                           !.types = [i \in 1..Len(r.cands) |-> r.cands[i].type]]
    /\ UNCHANGED <<now, orders, products, committed>>

GenerateInsights(shop, failAt) == GenerateInsightsWithin(shop, failAt, MaxRows)

\* get_db_context leaves the block normally: session.commit()
Commit ==
    /\ session = "open"
    /\ insights' = Flush(insights, now)
    /\ committed' = insights'
    /\ session' = "closed"
    /\ last' = [Outcome("commit") EXCEPT
                    !.shop = last.shop,
                    !.failAt = last.failAt]
    /\ UNCHANGED <<now, orders, products>>

\* get_db_context: the block or the commit raised, session.rollback()
Rollback ==
    /\ session \in {"open", "failed"}
    /\ insights' = committed
    /\ session' = "closed"
    /\ last' = Outcome("env")
    /\ UNCHANGED <<now, orders, products, committed>>

RowOf(rows, id) == {k \in 1..Len(rows) : rows[k].id = id}

\* POST /{insight_id}/dismiss, with InsightRepository.dismiss
DismissInsight(id) ==
    /\ session = "closed"
    /\ LET at == RowOf(insights, id)
           k == CHOOSE j \in at : TRUE
       IN  IF at = {}
           THEN UNCHANGED insights                    \* 404
           ELSE IF insights[k].dismissed_at # None
           THEN UNCHANGED insights                    \* 400
           ELSE insights' = [insights EXCEPT ![k].dismissed_at = now]
    /\ last' = Outcome("env")
    /\ committed' = insights'
    /\ UNCHANGED <<now, orders, products, session>>

\* POST /{insight_id}/action, with InsightRepository.mark_actioned
MarkInsightActioned(id) ==
    /\ session = "closed"
    /\ LET at == RowOf(insights, id)
           k == CHOOSE j \in at : TRUE
       IN  IF at = {}
           THEN UNCHANGED insights                    \* 404
           ELSE insights' = [insights EXCEPT ![k].actioned_at = now]
    /\ last' = Outcome("env")
    /\ committed' = insights'
    /\ UNCHANGED <<now, orders, products, session>>

\* rows handed to bulk_create: the columns of an insight, expiry included
Seed(type, expires) ==
    [type |-> type, severity |-> "low", title |-> <<"seed">>,
     action_summary |-> <<"seed">>, expected_uplift |-> <<"seed">>,
     confidence |-> 80, payload |-> [seed |-> TRUE], admin_deep_link |-> NoLink,
     expires_at |-> expires]

BulkData == { <<Seed(INVENTORY, StartDay + 10)>> }

\* [Insight(shop_id=shop_id, **data) for data in insights_data]
RECURSIVE AddAll(_, _, _)
AddAll(rows, shop, data) ==
    IF data = <<>> THEN rows
    ELSE AddAll(Append(rows, NewInsight(FreshId(rows), shop, data[1],
                                        data[1].expires_at)),
                shop, Tail(data))

\* InsightRepository.bulk_create, committed with its request
BulkCreate(shop, data) ==
    /\ session = "closed"
    /\ Len(insights) + Len(data) <= MaxRows
    /\ insights' = Flush(AddAll(insights, shop, data), now)
    /\ committed' = insights'
    /\ last' = Outcome("env")
    /\ UNCHANGED <<now, orders, products, session>>

Next ==
    \/ \E shop \in Shops : SyncShopData(shop)
    \/ \E shop \in Shops, failAt \in FailPoints : GenerateInsights(shop, failAt)
    \/ Commit
    \/ Rollback
    \/ \E id \in 1..(Len(insights) + 1) : DismissInsight(id)
    \/ \E id \in 1..(Len(insights) + 1) : MarkInsightActioned(id)

Spec == Init /\ [][Next]_vars

\* the same system with the clock running and rows created by bulk_create
ClockShops == {"s1"}

NextClock ==
    \/ \E shop \in ClockShops : SyncShopData(shop)
    \/ \E shop \in ClockShops, failAt \in FailPoints : GenerateInsights(shop, failAt)
    \/ Commit
    \/ Rollback
    \/ \E id \in 1..(Len(insights) + 1) : DismissInsight(id)
    \/ \E id \in 1..(Len(insights) + 1) : MarkInsightActioned(id)
    \/ Tick
    \/ \E shop \in ClockShops, data \in BulkData : BulkCreate(shop, data)

SpecClock == Init /\ [][NextClock]_vars

(***************************************************************************)
(* A shop whose data meets the thresholds of the analyzers: orders at the  *)
(* 5% change and at the 20% share, zero to six low-stock products, stock   *)
(* above the 80th percentile, products sold thirty times in the window.    *)
(***************************************************************************)
CaseOrders ==
    << [id |-> 1, shop_id |-> "s1", processed_at |-> 20, total_price |-> 7,
        line_items |-> <<>>, discount_codes |-> <<>>],
       [id |-> 2, shop_id |-> "s1", processed_at |-> 20, total_price |-> 6,
        line_items |-> <<Item("Q1", "q1", 1, 1)>>, discount_codes |-> <<>>],
       [id |-> 3, shop_id |-> "s1", processed_at |-> 20, total_price |-> 6,
        line_items |-> <<Item("Q2", "q2", 6, 1)>>, discount_codes |-> <<>>],
       [id |-> 4, shop_id |-> "s1", processed_at |-> 40, total_price |-> 7,
        line_items |-> <<Item("Q5", "q5", 7, 10)>>, discount_codes |-> <<"SAVE">>],
       [id |-> 5, shop_id |-> "s1", processed_at |-> 40, total_price |-> 7,
        line_items |-> <<Item("Q5", "q5", 7, 10)>>, discount_codes |-> <<"SAVE">>],
       [id |-> 6, shop_id |-> "s1", processed_at |-> 40, total_price |-> 7,
        line_items |-> <<Item("Q5", "q5", 7, 10)>>, discount_codes |-> <<"SAVE">>],
       [id |-> 7, shop_id |-> "s1", processed_at |-> 40, total_price |-> 20,
        line_items |-> <<Item("Q5", "q5", 20, 1)>>, discount_codes |-> <<>>],
       [id |-> 8, shop_id |-> "s1", processed_at |-> 20, total_price |-> 100,
        line_items |-> <<Item("Q1", "q1", 100, 1)>>, discount_codes |-> <<>>],
       [id |-> 9, shop_id |-> "s2", processed_at |-> 20, total_price |-> 565,
        line_items |-> <<Item("Z1", "z1", 113, 1)>>, discount_codes |-> <<>>],
       [id |-> 10, shop_id |-> "s2", processed_at |-> 20, total_price |-> 435,
        line_items |-> <<Item("Z1", "z1", 87, 1)>>, discount_codes |-> <<>>],
       [id |-> 11, shop_id |-> "s2", processed_at |-> 20, total_price |-> 100,
        line_items |-> <<>>, discount_codes |-> <<>>] >>

\* the products the first shop lists in the end, in the order it listed them
CaseCatalog ==
    << Prod("r3", "s1", "R3", 5, FALSE, "active"),
       Prod("q1", "s1", "Q1", 5, TRUE, "active"),
       Prod("q2", "s1", "Q2", 1, TRUE, "active"),
       Prod("r1", "s1", "R1", 6, TRUE, "active"),
       Prod("r2", "s1", "R2", 0, TRUE, "active"),
       Prod("q3", "s1", "Q3", 5, TRUE, "active"),
       Prod("r4", "s1", "R4", 5, TRUE, "draft"),
       Prod("q4", "s1", "Q4", 2, TRUE, "active"),
       Prod("q5", "s1", "Q5", 3, TRUE, "active"),
       Prod("q6", "s1", "Q6", 4, TRUE, "active"),
       Prod("q7", "s1", "Q7", 10, TRUE, "active"),
       Prod("q8", "s1", "Q8", 10, TRUE, "active"),
       Prod("q9", "s1", "Q9", 10, TRUE, "active"),
       Prod("q10", "s1", "Q10", 50, TRUE, "active"),
       Prod("q11", "s1", "Q11", 10, TRUE, "active") >>

\* the catalog after Q5 was restocked
Restocked ==
    [i \in 1..Len(CaseCatalog) |->
        IF CaseCatalog[i].id = "q5"
        THEN [CaseCatalog[i] EXCEPT !.total_inventory = 100]
        ELSE CaseCatalog[i]]

\* the listings Shopify returns for the first shop as its catalog grows
CaseProducts ==
    {Take(CaseCatalog, k) : k \in {1, 2, 5, 6, 8, 9, 10, Len(CaseCatalog)}}
        \cup {Restocked}

\* sync_shop_data for a shop of this data: Shopify holds one of the shop's
\* listings, or none, and at most one order of the shop that the table does
\* not hold yet
SyncCaseData(shop) ==
    /\ session = "closed"
    /\ \E feed \in {f \in CaseProducts : f[1].shop_id = shop} \cup {<<>>} :
          products' = UpsertProducts(products, feed)
    /\ \E new \in 0..1 :
          LET held == Len(OrdersSince(orders, shop, 0))
              mine == OrdersSince(CaseOrders, shop, 0)
              pulled == {mine[k].id : k \in 1..Min(held + new, Len(mine))}
          IN  orders' = SelectSeq(CaseOrders,
                            LAMBDA o : \/ o.id \in pulled
                                       \/ \E k \in 1..Len(orders) : orders[k].id = o.id)
    /\ <<products', orders'>> # <<products, orders>>
    /\ last' = Outcome("env")
    /\ UNCHANGED <<now, insights, committed, session>>

\* InsightsEngine.compute_all_insights(shop_id): reads only
ComputeAllInsightsCall(shop) ==
    /\ session = "closed"
    /\ LET found == ComputeAllInsights(products, orders, shop, now)
       IN  last' = [Outcome("engine") EXCEPT
                        !.shop = shop,
                        !.ret = Len(found),
                        !.types = [i \in 1..Len(found) |-> found[i].type]]
    /\ UNCHANGED <<now, orders, products, insights, committed, session>>

\* _upsert_insight called for each candidate in turn, without a flush between
\* the calls
RECURSIVE ReconcileInOrder(_, _, _)
ReconcileInOrder(rows, shop, cands) ==
    IF cands = <<>> THEN [rows |-> rows, count |-> 0, raised |-> FALSE]
    ELSE LET u == UpsertInsight(rows, shop, cands[1])
             rest == ReconcileInOrder(u.rows, shop, Tail(cands))
         IN  IF u.raised THEN [rows |-> rows, count |-> 0, raised |-> TRUE]
             ELSE [rest EXCEPT !.count = @ + u.ret]

\* one unit of work that reconciles the candidates of the engine through
\* _upsert_insight
ReconcileCandidates(shop) ==
    /\ session = "closed"
    /\ LET found == ComputeAllInsights(products, orders, shop, now)
           r == ReconcileInOrder(insights, shop, found)
       IN  /\ found # <<>>
           /\ insights' = r.rows
           /\ session' = IF r.raised THEN "failed" ELSE "open"
           /\ last' = [Outcome("reconcile") EXCEPT
                           !.shop = shop,
                           !.failAt = IF r.raised THEN "error" ELSE "none",
                           !.ret = r.count,
                           !.types = [i \in 1..Len(found) |-> found[i].type]]
    /\ UNCHANGED <<now, orders, products, committed>>

NextCases ==
    \/ \E shop \in Shops : SyncCaseData(shop)
    \/ \E shop \in Shops :
          GenerateInsightsWithin(shop, "none", Cardinality(GeneratorTypes))
    \/ \E shop \in Shops : ComputeAllInsightsCall(shop)
    \/ \E shop \in Shops : ReconcileCandidates(shop)
    \/ Rollback

SpecCases == Init /\ [][NextCases]_vars

(***************************************************************************)
(* Passes that run concurrently, each in a session of its own.  Here the   *)
(* variable session maps each worker to the state of its session, and      *)
(* insights is the table as committed: under READ COMMITTED a session sees *)
(* the committed rows, and its own rows only once it has flushed them.     *)
(***************************************************************************)
Workers == {"w1", "w2"}

\* a session outside a pass
Idle == [pc |-> "idle", shop |-> NoId, adds |-> <<>>, updates |-> <<>>]

\* the data of the shops when the passes start
InitConcurrent ==
    /\ now = StartDay
    /\ \E n \in {3, 7, 10} : orders = SelectSeq(CaseOrders, LAMBDA o : o.id <= n)
    /\ \E k \in {2, 3} : products = Take(CaseCatalog, k)
    /\ insights = <<>>
    /\ committed = <<>>
    /\ session = [w \in Workers |-> Idle]
    /\ last = Outcome("env")

\* generate_insights up to the 30-day statistics: without orders it returns
StartPass(w, shop) ==
    /\ session[w].pc = "idle"
    /\ session' = [session EXCEPT ![w] =
          [Idle EXCEPT !.shop = shop,
                       !.pc = IF NoOrders(OrderStats(orders, shop, now - ThirtyDays))
                              THEN "commit" ELSE TREND]]
    /\ last' = Outcome("env")
    /\ UNCHANGED <<now, orders, products, insights, committed>>

\* the candidate of the analyzer the pass has reached
CandidateAt(pc, shop) ==
    LET stats == OrderStats(orders, shop, now - ThirtyDays)
    IN  IF pc = TREND
        THEN TrendCandidate(stats, OrderStats(orders, shop, now - SevenDays))
        ELSE IF pc = PRICING
        THEN PricingCandidate(stats, WindowItems(orders, shop, now - ThirtyDays))
        ELSE InventoryCandidate(LowStockProducts(products, shop))

\* the analyzer that follows
NextStep(pc) ==
    IF pc = TREND THEN PRICING ELSE IF pc = PRICING THEN INVENTORY ELSE "commit"

\* one analyzer of generate_insights with its call of _upsert_insight: the
\* SELECT reads the committed table, the row is added to or changed in the
\* session
ReconcileStep(w) ==
    /\ session[w].pc \in GeneratorTypes
    /\ LET me == session[w]
           cand == CandidateAt(me.pc, me.shop)
           found == FindActive(insights, me.shop, me.pc)
       IN  session' = [session EXCEPT ![w] =
              IF cand = <<>> THEN [me EXCEPT !.pc = NextStep(me.pc)]
              ELSE IF Cardinality(found) > 1
              THEN [me EXCEPT !.pc = "commit"]      \* MultipleResultsFound
              ELSE IF found # {}
              THEN [me EXCEPT !.pc = NextStep(me.pc),
                              !.updates = Append(@,
                                  [id |-> insights[CHOOSE k \in found : TRUE].id,
                                   c |-> cand[1]])]
              ELSE [me EXCEPT !.pc = NextStep(me.pc),
                              !.adds = Append(@, cand[1])]]
    /\ last' = Outcome("env")
    /\ UNCHANGED <<now, orders, products, insights, committed>>

\* the UPDATEs of a session applied to the table
RECURSIVE ApplyUpdates(_, _)
ApplyUpdates(rows, updates) ==
    IF updates = <<>> THEN rows
    ELSE ApplyUpdates(
             Overwritten(rows, CHOOSE k \in RowOf(rows, updates[1].id) : TRUE,
                         updates[1].c),
             Tail(updates))

\* the INSERTs of a session applied to the table
RECURSIVE ApplyAdds(_, _, _)
ApplyAdds(rows, shop, adds) ==
    IF adds = <<>> THEN rows
    ELSE ApplyAdds(Append(rows, NewInsight(FreshId(rows), shop, adds[1], None)),
                   shop, Tail(adds))

\* session.flush() and the commit of get_db_context
CommitPass(w) ==
    /\ session[w].pc = "commit"
    /\ insights' = Flush(ApplyAdds(ApplyUpdates(insights, session[w].updates),
                                   session[w].shop, session[w].adds), now)
    /\ committed' = insights'
    /\ session' = [session EXCEPT ![w] = Idle]
    /\ last' = [Outcome("commit") EXCEPT !.shop = session[w].shop]
    /\ UNCHANGED <<now, orders, products>>

\* two passes for the same shop
NextConcurrent ==
    \/ \E w \in Workers : StartPass(w, "s1")
    \/ \E w \in Workers : ReconcileStep(w)
    \/ \E w \in Workers : CommitPass(w)

SpecConcurrent == InitConcurrent /\ [][NextConcurrent]_vars

\* each worker serves its own shop
ShopOf == [w \in Workers |-> IF w = "w1" THEN "s1" ELSE "s2"]

NextIsolated ==
    \/ \E w \in Workers : StartPass(w, ShopOf[w])
    \/ \E w \in Workers : ReconcileStep(w)
    \/ \E w \in Workers : CommitPass(w)

SpecIsolated == InitConcurrent /\ [][NextIsolated]_vars

(***************************************************************************)
(* Properties.                                                             *)
(***************************************************************************)
\* the rows of the pair (shop, type) that are not dismissed
Undismissed(rows, shop, type) ==
    {k \in 1..Len(rows) : /\ rows[k].shop_id = shop
                          /\ rows[k].type = type
                          /\ rows[k].dismissed_at = None}

\* the rows of the pair (shop, type) that are dismissed
Dismissed(rows, shop, type) ==
    {k \in 1..Len(rows) : /\ rows[k].shop_id = shop
                          /\ rows[k].type = type
                          /\ rows[k].dismissed_at # None}

\* the columns generate_insights is said never to write
Frozen(i) ==
    [id |-> i.id, shop_id |-> i.shop_id, type |-> i.type,
     created_at |-> i.created_at, dismissed_at |-> i.dismissed_at,
     actioned_at |-> i.actioned_at, expires_at |-> i.expires_at]

\* what the analyzers of generate_insights find in the shop's data
Candidates(ords, prods, shop, t) ==
    LET stats == OrderStats(ords, shop, t - ThirtyDays)
    IN  TrendCandidate(stats, OrderStats(ords, shop, t - SevenDays))
        \o PricingCandidate(stats, WindowItems(ords, shop, t - ThirtyDays))
        \o InventoryCandidate(LowStockProducts(prods, shop))

\* the candidate of the given type among them
CandidateOf(type, ords, prods, shop, t) ==
    LET cs == Candidates(ords, prods, shop, t)
    IN  cs[CHOOSE i \in 1..Len(cs) : cs[i].type = type]

\* this step is a call of generate_insights; it ran to its end without exception
GenStep == session = "closed" /\ last'.op = "gen"
GenOk == GenStep /\ last'.failAt = "none"

\* the rows a pass added to the table it started from
AddedRows(before, after, shop, type) ==
    {k \in (Len(before) + 1)..Len(after) : /\ after[k].shop_id = shop
                                            /\ after[k].type = type}

\* C1: starting from an empty store, after any sequence of generation passes,
\* dismissals and mark_actioned calls, every (shop_id, type) pair has at most
\* one insight whose dismissed_at is null.
AtMostOneUndismissed ==
    \A shop \in Shops : \A type \in GeneratorTypes :
        Cardinality(Undismissed(insights, shop, type)) <= 1

\* a pair with a dismissed row and a regenerated undismissed one, acted upon
AtMostOneUndismissedWitness ==
    \E shop \in Shops : \E type \in GeneratorTypes :
        /\ Dismissed(insights, shop, type) # {}
        /\ Undismissed(insights, shop, type) # {}
        /\ \E k \in 1..Len(insights) : insights[k].actioned_at # None

\* C2: in a pass that completes without exception, a candidate whose pair has
\* an undismissed row overwrites that row's seven content fields and adds no
\* row; every other candidate adds exactly one row; the integer returned is
\* the number of rows the pass created.
PassUpdatesOrCreates ==
    [][GenOk =>
        LET shop == last'.shop
            cs == IF NoOrders(OrderStats(orders, shop, now - ThirtyDays)) THEN <<>>
                  ELSE Candidates(orders, products, shop, now)
        IN  /\ last'.types = [i \in 1..Len(cs) |-> cs[i].type]
            /\ \A i \in 1..Len(cs) :
                  LET c == cs[i]
                      und == Undismissed(insights, shop, c.type)
                      new == AddedRows(insights, insights', shop, c.type)
                  IN  IF und # {}
                      THEN /\ new = {}
                           /\ \A k \in und :
                                 MutableFields(insights'[k]) = MutableFields(c)
                      ELSE /\ Cardinality(new) = 1
                           /\ \A k \in new :
                                 MutableFields(insights'[k]) = MutableFields(c)
            /\ last'.ret = Len(insights') - Len(insights)
            /\ last'.ret = Cardinality({i \in 1..Len(cs) :
                               Undismissed(insights, shop, cs[i].type) = {}})
    ]_vars

\* a pass that both refreshed a row with new content and created a row
PassUpdatesOrCreatesWitness ==
    /\ last.op = "gen" /\ last.failAt = "none"
    /\ last.ret >= 1
    /\ Len(last.types) > last.ret
    /\ \E k \in 1..Len(committed) : insights[k] # committed[k]

\* C3: a second pass right after a first one (same shop, same data, nothing
\* but the commit in between) returns 0 and leaves every row as it was.
SecondPassIdempotent ==
    [][(/\ GenOk
        /\ last.op = "commit" /\ last.failAt = "none"
        /\ last.shop = last'.shop)
       => /\ last'.ret = 0
          /\ Len(insights') = Len(insights)
          /\ insights' = insights
    ]_vars

\* a pass that reconciled several candidates, created nothing, changed nothing
SecondPassIdempotentWitness ==
    /\ last.op = "gen" /\ last.failAt = "none"
    /\ Len(last.types) >= 2
    /\ last.ret = 0
    /\ insights = committed

\* C4: if an exception is thrown at any point of a run, also after insights
\* were created in that run, generate_insights returns 0.
ReturnsZeroOnFailure ==
    (last.op = "gen" /\ last.failAt # "none") => last.ret = 0

\* C5: generate_insights never propagates an exception: whichever step fails,
\* the call ends by returning an integer.
NeverPropagates ==
    last.op = "gen" => (~last.escaped /\ last.ret \in Nat)

\* a run that failed after it had added a row
NeverPropagatesWitness ==
    /\ last.op = "gen" /\ last.failAt # "none"
    /\ Len(insights) > Len(committed)
    /\ ~last.escaped

\* C6: once an insight is dismissed, a later pass in which the condition of
\* its type fires creates a new row of that type, counted in the value
\* returned, and leaves the dismissed row as it was.
DismissedNotResurrected ==
    [][GenStep =>
        LET shop == last'.shop
        IN  /\ \A k \in 1..Len(insights) :
                  insights[k].dismissed_at # None =>
                      k <= Len(insights') /\ insights'[k] = insights[k]
            /\ \A i \in 1..Len(last'.types) :
                  LET c == CandidateOf(last'.types[i], orders, products, shop, now)
                  IN  (/\ Dismissed(insights, shop, c.type) # {}
                       /\ Undismissed(insights, shop, c.type) = {})
                      => /\ \E k \in AddedRows(insights, insights', shop, c.type) :
                               /\ MutableFields(insights'[k]) = MutableFields(c)
                               /\ insights'[k].dismissed_at = None
                         /\ last'.ret >= 1
    ]_vars

\* a pass has just created a row next to a dismissed row of the same type
DismissedNotResurrectedWitness ==
    /\ last.op = "gen" /\ last.ret >= 1
    /\ \E k \in (Len(committed) + 1)..Len(insights) :
          Dismissed(committed, insights[k].shop_id, insights[k].type) # {}

GenWritesContentOnly ==
    [][GenStep =>
        /\ Len(insights') >= Len(insights)
        /\ \A k \in 1..Len(insights) : Frozen(insights'[k]) = Frozen(insights[k])
    ]_vars

\* a pass at a later day has rewritten the content of an actioned row
GenWritesContentOnlyWitness ==
    /\ last.op = "gen"
    /\ \E k \in 1..Len(committed) :
          /\ insights[k] # committed[k]
          /\ insights[k].actioned_at # None
          /\ insights[k].created_at < now

\* C9: whenever an analyzer fires and the shop has no active insight of that
\* type (not dismissed and not expired), the pass creates a row of that type.
CreatesWhenNoneActive ==
    (last.op = "gen" /\ last.failAt = "none") =>
        \A i \in 1..Len(last.types) :
            LET type == last.types[i]
            IN  (~\E k \in 1..Len(committed) :
                     /\ committed[k].shop_id = last.shop
                     /\ committed[k].type = type
                     /\ IsActive(committed[k], now))
                => AddedRows(committed, insights, last.shop, type) # {}

\* C10: for a shop with no order in the last thirty days, whatever its
\* products, generate_insights returns 0 and creates or modifies no row, and
\* compute_all_insights returns the empty list.
NoOrdersNoInsights ==
    /\ (/\ last.op = "gen"
        /\ OrdersSince(orders, last.shop, now - ThirtyDays) = <<>>)
       => (last.ret = 0 /\ insights = committed)
    /\ \A shop \in Shops :
          OrdersSince(orders, shop, now - ThirtyDays) = <<>>
              => ComputeAllInsights(products, orders, shop, now) = <<>>

\* a pass for a shop that has an old order and a product low on stock
NoOrdersNoInsightsWitness ==
    /\ last.op = "gen" /\ last.failAt = "none"
    /\ OrdersSince(orders, last.shop, now - ThirtyDays) = <<>>
    /\ OrdersSince(orders, last.shop, 0) # <<>>
    /\ LowStockProducts(products, last.shop) # <<>>

\* the last candidate of the given type in a list of candidates
LastOfType(cands, type) ==
    cands[CHOOSE j \in 1..Len(cands) :
              /\ cands[j].type = type
              /\ \A m \in (j + 1)..Len(cands) : cands[m].type # type]

\* C11: when several candidates of one type are reconciled for a shop through
\* _upsert_insight in one unit of work, without a flush between the calls, the
\* shop ends with exactly one undismissed insight of that type, and it carries
\* the fields of the last of these candidates.
LastWriteWins ==
    (last.op = "reconcile" /\ last.failAt = "none") =>
        LET found == ComputeAllInsights(products, orders, last.shop, now)
        IN  \A i \in 1..Len(found) :
                LET und == Undismissed(insights, last.shop, found[i].type)
                IN  /\ Cardinality(und) = 1
                    /\ \A k \in und :
                          MutableFields(insights[k])
                              = MutableFields(LastOfType(found, found[i].type))

\* the orders in which n candidates can be taken
Orderings(n) ==
    {q \in [1..n -> 1..n] : \A i, j \in 1..n : q[i] = q[j] => i = j}

\* the candidates cs taken in the order q
InOrder(cs, q) == [i \in 1..Len(cs) |-> cs[q[i]]]

\* two tables grown from the table before hold the same rows: those of before
\* at their places, the added ones up to their order and their identifiers
SameRows(before, t1, t2) ==
    LET added == (Len(before) + 1)..Len(t1)
        Twin(x, y) == x.type = y.type /\ [x EXCEPT !.id = y.id] = y
    IN  /\ Len(t1) = Len(t2)
        /\ \A k \in 1..Len(before) : t1[k] = t2[k]
        /\ \A k \in added : \E j \in added : Twin(t1[k], t2[j])
        /\ \A j \in added : \E k \in added : Twin(t1[k], t2[j])

\* C12: the insights a successful pass leaves do not depend on the order in
\* which the trend, pricing and inventory candidates are reconciled: in any
\* order the same rows are present with the same contents, and the same count
\* is returned.
OrderIndependent ==
    [][(GenOk /\ OrdersSince(orders, last'.shop, now - ThirtyDays) # <<>>) =>
          \A q \in Orderings(Len(last'.types)) :
              \A r \in {ReconcileInOrder(insights, last'.shop,
                             InOrder(Candidates(orders, products, last'.shop, now), q))} :
                  /\ ~r.raised
                  /\ r.count = last'.ret
                  /\ SameRows(insights, Flush(r.rows, now), insights')]_vars

\* a pass with two candidates or more that updated a row and created another
OrderIndependentWitness ==
    /\ last.op = "gen" /\ last.failAt = "none"
    /\ Len(last.types) >= 2
    /\ \E i \in 1..Len(last.types) :
          AddedRows(committed, insights, last.shop, last.types[i]) # {}
    /\ \E i \in 1..Len(last.types) :
          Undismissed(committed, last.shop, last.types[i]) # {}

\* the rows of a table that belong to the shop
Of(rows, shop) == SelectSeq(rows, LAMBDA r : r.shop_id = shop)

\* C13: a pass for a shop creates and modifies no insight of another shop, and
\* it reads only its shop's orders, products and insights: however the passes
\* of two shops interleave, the pass that commits leaves its shop's insights
\* as a pass run alone on that shop's data leaves them.
ShopsIsolated ==
    [][\A w \in Workers :
          (session[w].pc = "commit" /\ session'[w].pc = "idle") =>
              LET a == session[w].shop
              IN  /\ \A k \in 1..Len(insights) :
                        insights[k].shop_id # a => insights'[k] = insights[k]
                  /\ \A k \in (Len(insights) + 1)..Len(insights') :
                        insights'[k].shop_id = a
                  /\ \A r \in {GenerateInsightsRun(Of(orders, a), Of(products, a),
                                                   Of(insights, a), now, a, "none")} :
                        SameRows(Of(insights, a), r.rows, Of(insights', a))]_vars

\* a pass has committed insights for its shop while the table holds insights
\* of the other shop and the other shop's pass is under way
ShopsIsolatedWitness ==
    /\ last.op = "commit"
    /\ Of(insights, last.shop) # <<>>
    /\ \E k \in 1..Len(insights) : insights[k].shop_id # last.shop
    /\ \E w \in Workers : session[w].pc \in GeneratorTypes /\ session[w].updates # <<>>

\* C14: in every reachable state the table holds at most one undismissed
\* insight per (shop_id, type), also when two passes for the same shop run
\* concurrently in separate sessions and their reads and inserts interleave
\* before either commits.
AtMostOneUndismissedConcurrently ==
    \A shop \in Shops, type \in GeneratorTypes :
        Cardinality(Undismissed(insights, shop, type)) <= 1

(***************************************************************************)
(* What the stored data says about a shop's sales: a stored line item      *)
(* names its product under product_id, its units under quantity and its    *)
(* revenue under amount.                                                   *)
(***************************************************************************)
\* the shop's orders of the last thirty days and their items
RecentOf(shop) == GetRecentOrders(orders, shop, now, ThirtyDays)
ItemsOf(shop) == OrderItems(RecentOf(shop))

\* the products that the shop sold in the window
SoldIds(shop) ==
    {ItemsOf(shop)[k].item.product_id : k \in 1..Len(ItemsOf(shop))} \ {NoId}

\* the units of the product sold in the window
RECURSIVE UnitsIn(_, _)
UnitsIn(ois, pid) ==
    IF ois = <<>> THEN 0
    ELSE (IF ois[1].item.product_id = pid THEN ois[1].item.quantity ELSE 0)
         + UnitsIn(Tail(ois), pid)

UnitsSold(shop, pid) == UnitsIn(ItemsOf(shop), pid)

\* the value at 0-based place i of the values val(x), x in S, sorted upwards
ValueAt(S, val(_), i) ==
    val(CHOOSE x \in S : /\ Cardinality({y \in S : val(y) < val(x)}) <= i
                         /\ i < Cardinality({y \in S : val(y) <= val(x)}))

\* the products a list of engine candidates of the given type is about
EmittedFor(found, type) ==
    {found[k].payload.product_id :
        k \in {j \in 1..Len(found) : found[j].type = type}}

\* the candidates of the last call of compute_all_insights
EngineFound == ComputeAllInsights(products, orders, last.shop, now)

\* C15: the understocked analyzer emits an insight for a product exactly when
\* the product's 30-day units sold are at least the median (P50) of the
\* per-product sales, are positive, and its inventory lasts less than seven
\* days at that rate (30 * inventory < 7 * sales).
UnderstockedExactly ==
    last.op = "engine" =>
        LET shop == last.shop
            sold == SoldIds(shop)
            Units(pid) == UnitsSold(shop, pid)
            p50 == ValueAt(sold, Units, Cardinality(sold) \div 2)
            ps == GetProducts(products, shop)
        IN  EmittedFor(EngineFound, UNDERSTOCKED)
                = {ps[k].id : k \in {j \in 1..Len(ps) :
                      /\ sold # {}
                      /\ Units(ps[j].id) >= p50
                      /\ Units(ps[j].id) > 0
                      /\ ThirtyDays * ps[j].total_inventory
                             < SevenDays * Units(ps[j].id)}}

\* C16: the overstock analyzer emits an insight exactly for the products whose
\* inventory is above the 80th percentile of the positive inventories and
\* whose 30-day units sold are at most the 20th percentile of the per-product
\* sales (products without sales count with zero), and for none when no
\* product has a positive inventory.
OverstockExactly ==
    (last.op = "engine" /\ RecentOf(last.shop) # <<>>) =>
        LET shop == last.shop
            ps == GetProducts(products, shop)
            all == 1..Len(ps)
            stocked == {k \in all : ps[k].total_inventory > 0}
            Inv(k) == ps[k].total_inventory
            Units(k) == UnitsSold(shop, ps[k].id)
            p80 == ValueAt(stocked, Inv, (Cardinality(stocked) * 8) \div 10)
            p20 == ValueAt(all, Units, (Len(ps) * 2) \div 10)
        IN  EmittedFor(EngineFound, OVERSTOCK)
                = IF stocked = {} THEN {}
                  ELSE {ps[k].id : k \in {j \in all : /\ Inv(j) > p80
                                                     /\ Units(j) <= p20}}

\* the line items of the product in the window's orders
LinesOf(shop, pid) ==
    SelectSeq(ItemsOf(shop), LAMBDA oi : oi.item.product_id = pid)

\* the revenue of the product in the window, in cents
RECURSIVE AmountIn(_)
AmountIn(ois) ==
    IF ois = <<>> THEN 0 ELSE ois[1].item.amount + AmountIn(Tail(ois))

RevenueOf(shop, pid) == AmountIn(LinesOf(shop, pid))

\* C17: the coupon analyzer emits an insight exactly for the products whose
\* share of discounted orders among their orders is above 0.4 and whose
\* revenue is above the 60th percentile of the per-product revenues.
CouponExactly ==
    last.op = "engine" =>
        LET shop == last.shop
            sold == SoldIds(shop)
            Revenue(pid) == RevenueOf(shop, pid)
            Total(pid) == Len(LinesOf(shop, pid))
            Discounted(pid) ==
                Len(SelectSeq(LinesOf(shop, pid), LAMBDA oi : oi.discounted))
            p60 == ValueAt(sold, Revenue, (Cardinality(sold) * 6) \div 10)
        IN  EmittedFor(EngineFound, COUPON)
                = IF GetProducts(products, shop) = <<>> THEN {}
                  ELSE {pid \in sold : /\ Discounted(pid) * 10 > 4 * Total(pid)
                                       /\ Revenue(pid) > p60}

\* C18: a pass reconciles a trend_detection candidate exactly when the 30-day
\* average order value is positive, the last seven days hold at least three
\* orders, and the 7-day average differs from the 30-day average by at least
\* 5% of it; the severity is low when the 7-day average is the higher one and
\* medium when it is the lower one.
TrendExactly ==
    (last.op = "gen" /\ last.failAt = "none" /\ RecentOf(last.shop) # <<>>) =>
        LET stats == OrderStats(orders, last.shop, now - ThirtyDays)
            recent == OrderStats(orders, last.shop, now - SevenDays)
            \* aov_7d - aov_30d, as a multiple of 1 / (orders * recent orders)
            diff == recent.revenue * stats.orders - stats.revenue * recent.orders
            due == /\ stats.revenue > 0
                   /\ recent.orders >= MinRecentOrders
                   /\ Abs(diff) * 100 >= MinChangePct * stats.revenue * recent.orders
        IN  /\ due <=> \E i \in 1..Len(last.types) : last.types[i] = TREND
            /\ \A k \in Undismissed(insights, last.shop, TREND) :
                  insights[k].severity = IF diff > 0 THEN "low" ELSE "medium"

\* the shop's products that are tracked, active and hold one to five units
LowOnStock(shop) ==
    {k \in 1..Len(products) : /\ products[k].shop_id = shop
                              /\ products[k].inventory_tracked
                              /\ products[k].status = "active"
                              /\ products[k].total_inventory > 0
                              /\ products[k].total_inventory <= 5}

\* C19: a pass for a shop with an order in the window reconciles exactly one
\* inventory_alert candidate if the shop has a tracked, active product with
\* one to five units, and none otherwise.  With k such products the summary
\* names min(k, 3) of them and counts k - 3 more only when k > 3; the payload
\* lists min(k, 5) of them and gives low_stock_count = k.
InventoryAlertExactly ==
    (last.op = "gen" /\ last.failAt = "none" /\ RecentOf(last.shop) # <<>>) =>
        LET k == Cardinality(LowOnStock(last.shop))
            alerts == {i \in 1..Len(last.types) : last.types[i] = INVENTORY}
        IN  /\ Cardinality(alerts) = IF k >= 1 THEN 1 ELSE 0
            /\ k >= 1 =>
                  \A j \in Undismissed(insights, last.shop, INVENTORY) :
                      /\ Len(insights[j].action_summary[1]) = Min(k, 3)
                      /\ insights[j].action_summary[2] = IF k > 3 THEN k - 3 ELSE 0
                      /\ Len(insights[j].payload.products) = Min(k, 5)
                      /\ insights[j].payload.low_stock_count = k
                      /\ insights[j].title[1] = k

\* a pass that stored the alert for six products low on stock, next to
\* products that are untracked, inactive, out of stock or well stocked
InventoryAlertExactlyWitness ==
    /\ last.op = "gen" /\ last.failAt = "none"
    /\ Cardinality(LowOnStock(last.shop)) = 6
    /\ Undismissed(insights, last.shop, INVENTORY) # {}
    /\ Len(GetProducts(products, last.shop)) > 6

\* C20: a pass reconciles at most one pricing_opportunity candidate; it is for
\* a product whose summed line-item revenue of the last thirty days is
\* maximal, and it is reconciled exactly when that revenue is at least 20% of
\* the summed total_price of the window's orders.
PricingExactly ==
    (last.op = "gen" /\ last.failAt = "none" /\ RecentOf(last.shop) # <<>>) =>
        LET shop == last.shop
            sold == SoldIds(shop)
            Revenue(pid) == RevenueOf(shop, pid)
            best == {pid \in sold : \A other \in sold : Revenue(other) <= Revenue(pid)}
            total == SumPrice(RecentOf(shop))
            due == \E pid \in best : Revenue(pid) * 100 >= 20 * total
            found == {i \in 1..Len(last.types) : last.types[i] = PRICING}
        IN  /\ Cardinality(found) <= 1
            /\ due <=> found # {}
            /\ \A k \in Undismissed(insights, shop, PRICING) :
                  insights[k].payload.product_id \in best

(***************************************************************************)
(* The analyzers over orders whose line items have the shape the engine    *)
(* reads: the nested product.id and originalTotalSet.shopMoney.amount of a *)
(* Shopify line item.  The inputs are drawn from the lists below and       *)
(* compute_all_insights and generate_insights are applied to them.         *)
(***************************************************************************)
\* a line item as Shopify returns it, money in cents
RawItem(title, pid, total, qty) ==
    [title |-> title, product_id |-> NoId, product |-> pid,
     amount |-> 0, original_total |-> total, quantity |-> qty]

\* orders of the first shop: the second holds two line items of one product,
\* the fourth an item of quantity 0, the sixth lies outside the thirty days
EngineOrders ==
    << [id |-> 1, shop_id |-> "s1", processed_at |-> 20, total_price |-> 700,
        line_items |-> <<RawItem("Q5", "q5", 700, 10)>>,
        discount_codes |-> <<"SAVE">>],
       [id |-> 2, shop_id |-> "s1", processed_at |-> 40, total_price |-> 1400,
        line_items |-> <<RawItem("Q5", "q5", 700, 10),
                         RawItem("Q5", "q5", 700, 10)>>,
        discount_codes |-> <<>>],
       [id |-> 3, shop_id |-> "s1", processed_at |-> 40, total_price |-> 100,
        line_items |-> <<RawItem("Q1", "q1", 100, 1)>>,
        discount_codes |-> <<>>],
       [id |-> 4, shop_id |-> "s1", processed_at |-> 20, total_price |-> 0,
        line_items |-> <<RawItem("Q2", "q2", 0, 0)>>,
        discount_codes |-> <<"SAVE">>],
       [id |-> 5, shop_id |-> "s1", processed_at |-> 40, total_price |-> 500,
        line_items |-> <<RawItem("Q3", "q3", 200, 2),
                         RawItem("Q4", "q4", 300, 3)>>,
        discount_codes |-> <<>>],
       [id |-> 6, shop_id |-> "s1", processed_at |-> 0, total_price |-> 900,
        line_items |-> <<RawItem("Q6", "q6", 900, 9)>>,
        discount_codes |-> <<"SAVE">>] >>

\* the orders table holds any of these orders, in id order
EngineOrderTables ==
    {SelectSeq(EngineOrders, LAMBDA o : o.id \in ids) :
        ids \in SUBSET {EngineOrders[k].id : k \in 1..Len(EngineOrders)}}

\* a catalog whose products are all out of stock
SoldOut ==
    [i \in 1..2 |-> [CaseCatalog[i] EXCEPT !.total_inventory = 0]]

\* the products table holds one of the listings, an out-of-stock catalog or
\* nothing
EngineProductTables == CaseProducts \cup {SoldOut, <<>>}

InitEngine ==
    /\ now = StartDay
    /\ orders \in EngineOrderTables
    /\ products \in EngineProductTables
    /\ insights = <<>>
    /\ committed = <<>>
    /\ session = "closed"
    /\ last = Outcome("env")

NextEngine ==
    \/ \E shop \in Shops : ComputeAllInsightsCall(shop)
    \/ \E shop \in Shops :
          GenerateInsightsWithin(shop, "none", Cardinality(GeneratorTypes))
    \/ Rollback

SpecEngine == InitEngine /\ [][NextEngine]_vars

\* the data compute_all_insights hands to the analyzers for a shop
EngineProducts(shop) == GetProducts(products, shop)
EngineRecent(shop) == GetRecentOrders(orders, shop, now, ThirtyDays)

\* sales_values of the understocked analyzer, sorted
SalesSample(shop) ==
    LET sbp == SalesByProduct(OrderItems(EngineRecent(shop)), <<>>)
    IN  SortAsc([i \in 1..Len(sbp) |-> sbp[i].units])

\* inventories of the overstock analyzer, sorted
InventorySample(shop) ==
    LET stocked == SelectSeq(EngineProducts(shop), LAMBDA p : p.total_inventory > 0)
    IN  SortAsc([i \in 1..Len(stocked) |-> stocked[i].total_inventory])

\* sales_values of the overstock analyzer, sorted
ProductSalesSample(shop) ==
    LET sbp == SalesByProduct(OrderItems(EngineRecent(shop)), <<>>)
        ps == EngineProducts(shop)
    IN  SortAsc([i \in 1..Len(ps) |-> SalesOf(sbp, ps[i].id)])

\* revenues of the coupon analyzer, sorted
RevenueSample(shop) ==
    LET pm == ProductMetrics(OrderItems(EngineRecent(shop)), <<>>)
    IN  SortAsc([i \in 1..Len(pm) |-> pm[i].total_revenue])

\* the engine was just run for the shop and reached its analyzers
EngineRan(shop) ==
    /\ last.op = "engine"
    /\ last.shop = shop
    /\ EngineProducts(shop) # <<>>
    /\ EngineRecent(shop) # <<>>

Elems(S) == {S[i] : i \in 1..Len(S)}

\* index i is a position of S (0-based) and v is the element there
Picks(S, i, v) ==
    /\ i \in 0..(Len(S) - 1)
    /\ v = S[i + 1]
    /\ v \in Elems(S)

\* C21: for every non-empty sample an analyzer sorts, the index it computes
\* (len // 2 for P50, floor(0.8 len) for P80, floor(0.2 len) for P20,
\* floor(0.6 len) for P60) lies in 0..len-1 and the threshold read there is
\* an element of the sample
PercentileInSample ==
    \A shop \in Shops :
        /\ SalesSample(shop) # <<>> =>
               /\ MedianIndex(Len(SalesSample(shop))) \in
                      0..(Len(SalesSample(shop)) - 1)
               /\ Picks(SalesSample(shop), MedianIndex(Len(SalesSample(shop))),
                        SalesSample(shop)[MedianIndex(Len(SalesSample(shop))) + 1])
        /\ InventorySample(shop) # <<>> =>
               /\ PercentileIndex(Len(InventorySample(shop)), 8) \in
                      0..(Len(InventorySample(shop)) - 1)
               /\ Picks(InventorySample(shop),
                        PercentileIndex(Len(InventorySample(shop)), 8),
                        PercentileAt(InventorySample(shop), 8))
        /\ ProductSalesSample(shop) # <<>> =>
               /\ PercentileIndex(Len(ProductSalesSample(shop)), 2) \in
                      0..(Len(ProductSalesSample(shop)) - 1)
               /\ Picks(ProductSalesSample(shop),
                        PercentileIndex(Len(ProductSalesSample(shop)), 2),
                        PercentileAt(ProductSalesSample(shop), 2))
        /\ RevenueSample(shop) # <<>> =>
               /\ PercentileIndex(Len(RevenueSample(shop)), 6) \in
                      0..(Len(RevenueSample(shop)) - 1)
               /\ Picks(RevenueSample(shop),
                        PercentileIndex(Len(RevenueSample(shop)), 6),
                        PercentileAt(RevenueSample(shop), 6))

\* the engine ran over samples of length 1: one product sold, one listed
PercentileInSampleWitness ==
    /\ EngineRan("s1")
    /\ Len(SalesSample("s1")) = 1
    /\ Len(InventorySample("s1")) = 1
    /\ Len(ProductSalesSample("s1")) = 1
    /\ Len(RevenueSample("s1")) = 1

(***************************************************************************)
(* AICodeAnalyzer.analyze_code: the primary provider is tried up to        *)
(* max_retries times, then the fallback provider if one is configured.     *)
(* Each provider is given by the answers it would return, call after call. *)
(***************************************************************************)
\* one chat.completions.create call: "error" raises (as does an empty
\* content, through ValueError), "invalid" returns content that is not JSON,
\* "ok" returns a JSON object
ProviderAnswers == {"error", "invalid", "ok"}

Scripts == [1..MaxAttempts -> ProviderAnswers]

\* the exception an answer raises inside the try block
ErrorOf(answer) == IF answer = "invalid" THEN "JSONDecodeError" ELSE "APIError"

\* a variant that gives up at the first failure
LastAttemptFirst(attempt, max_retries) == attempt = 0

\* if attempt == max_retries - 1: raise
LastAttempt(attempt, max_retries) == attempt = max_retries - 1

\* _analyze_with_client from loop index attempt on: the calls made in all, the
\* call whose parsed JSON is returned (0 when none) and the exception raised
RECURSIVE AnalyzeWithClient(_, _, _)
AnalyzeWithClient(script, max_retries, attempt) ==
    IF attempt >= max_retries
    THEN [raised |-> "RuntimeError", calls |-> attempt, call |-> 0]
    ELSE IF script[attempt + 1] = "ok"
    THEN [raised |-> "none", calls |-> attempt + 1, call |-> attempt + 1]
    ELSE IF LastAttempt(attempt, max_retries)
    THEN [raised |-> ErrorOf(script[attempt + 1]), calls |-> attempt + 1,
          call |-> 0]
    ELSE AnalyzeWithClient(script, max_retries, attempt + 1)

\* the parsed response with its _metadata
ParsedResult(provider, call) ==
    [overall_grade |-> "B", ai_provider |-> provider, call |-> call,
     error |-> "none"]

\* _create_error_result
CreateErrorResult(error) ==
    [overall_grade |-> "F", ai_provider |-> "none", call |-> 0,
     error |-> error]

\* analyze_code: what it returns, the exception that reaches its caller, and
\* the calls each client received; an absent fallback client is <<>>
AnalyzeCodeRun(primary_client, fallback_client, max_retries) ==
    LET p == AnalyzeWithClient(primary_client, max_retries, 0)
        f == AnalyzeWithClient(fallback_client, max_retries, 0)
    IN  IF p.raised = "none"
        THEN [result |-> ParsedResult("primary", p.call), escaped |-> "none",
              primary_calls |-> p.calls, fallback_calls |-> 0]
        ELSE IF fallback_client # <<>> /\ f.raised = "none"
        THEN [result |-> ParsedResult("fallback", f.call), escaped |-> "none",
              primary_calls |-> p.calls, fallback_calls |-> f.calls]
        ELSE [result |-> CreateErrorResult(p.raised), escaped |-> "none",
              primary_calls |-> p.calls,
              fallback_calls |-> IF fallback_client # <<>> THEN f.calls ELSE 0]

\* AICodeAnalyzer.__init__: here the variable session holds the two clients
\* of the analyzer, each as the answers its provider gives
InitAnalyzer ==
    /\ now = StartDay
    /\ orders = <<>>
    /\ products = <<>>
    /\ insights = <<>>
    /\ committed = <<>>
    /\ session \in [primary_client : Scripts,
                    fallback_client : Scripts \cup {<<>>}]
    /\ last = Outcome("env")

\* analyze_code(code, language, max_retries)
AnalyzeCode(max_retries) ==
    /\ \E r \in {AnalyzeCodeRun(session.primary_client, session.fallback_client,
                                max_retries)} :
          last' = [op |-> "analyze_code", max_retries |-> max_retries,
                   result |-> r.result, escaped |-> r.escaped,
                   primary_calls |-> r.primary_calls,
                   fallback_calls |-> r.fallback_calls]
    /\ UNCHANGED <<now, orders, products, insights, committed, session>>

NextAnalyzer == \E max_retries \in 0..MaxAttempts : AnalyzeCode(max_retries)

SpecAnalyzer == InitAnalyzer /\ [][NextAnalyzer]_vars

\* the first k answers of the script are failures and answer k + 1 is a
\* JSON object
FailsThenSucceeds(script, k) ==
    /\ \A i \in 1..k : script[i] # "ok"
    /\ script[k + 1] = "ok"

\* C22: when the first k calls of the provider fail and call k+1 succeeds,
\* k+1 <= max_retries, analyze_code returns the parsed result of call k+1
\* and the provider has been called exactly k+1 times
RetryUntilSuccess ==
    last.op = "analyze_code" =>
        \A k \in 0..(MaxAttempts - 1) :
            (/\ k + 1 <= last.max_retries
             /\ FailsThenSucceeds(session.primary_client, k)) =>
                /\ last.escaped = "none"
                /\ last.result = ParsedResult("primary", k + 1)
                /\ last.primary_calls = k + 1
                /\ last.fallback_calls = 0

\* max_retries = 2, the first call fails and the second succeeds: the result
\* of the second call is returned after exactly 2 calls
RetryUntilSuccessWitness ==
    /\ last.op = "analyze_code"
    /\ last.max_retries = 2
    /\ session.primary_client[1] = "error"
    /\ session.primary_client[2] = "ok"
    /\ last.result = ParsedResult("primary", 2)
    /\ last.primary_calls = 2

\* every attempt of the call fails: no client that is tried returns a JSON
\* object within max_retries calls
AllAttemptsFail ==
    /\ last.max_retries >= 1
    /\ \A i \in 1..last.max_retries : session.primary_client[i] # "ok"
    /\ session.fallback_client # <<>> =>
           \A i \in 1..last.max_retries : session.fallback_client[i] # "ok"

\* C23: when every attempt of the provider call fails, analyze_code raises
\* the provider's exception to its caller
AllFailRaises ==
    (last.op = "analyze_code" /\ AllAttemptsFail) =>
        last.escaped \in {"APIError", "JSONDecodeError"}

\* product_metrics of the coupon analyzer for the shop
CouponMetrics(shop) == ProductMetrics(OrderItems(EngineRecent(shop)), <<>>)

\* the orders of the window in which the product appears
OrdersWith(shop, pid) ==
    LET os == EngineRecent(shop)
    IN  {i \in 1..Len(os) :
            \E j \in 1..Len(os[i].line_items) :
                EngineProductId(os[i].line_items[j]) = pid}

EngineDenominators(shop) ==
    LET ps == EngineProducts(shop)
        os == EngineRecent(shop)
        sbp == SalesByProduct(OrderItems(os), <<>>)
        p50 == SalesSample(shop)[MedianIndex(Len(SalesSample(shop))) + 1]
        pm == CouponMetrics(shop)
    IN  IF ps = <<>> \/ os = <<>> THEN {}
        ELSE (IF sbp = <<>> THEN {}
              ELSE {SalesOf(sbp, ps[i].id) :
                      i \in {j \in 1..Len(ps) :
                                /\ ~(SalesOf(sbp, ps[j].id) < p50)
                                /\ DailySalesPositive(SalesOf(sbp, ps[j].id))}})
             \cup {pm[k].total_orders :
                      k \in {j \in 1..Len(pm) : pm[j].total_orders # 0}}

\* the denominators of the divisions generate_insights executes for the
\* shop: total_orders, recent_orders, aov_30d (zero exactly when the revenue
\* is zero) and total_revenue
GeneratorDenominators(shop) ==
    LET stats == OrderStats(orders, shop, now - ThirtyDays)
        recent == OrderStats(orders, shop, now - SevenDays)
        pr == ProductRevenue(WindowItems(orders, shop, now - ThirtyDays), <<>>)
    IN  IF NoOrders(stats) THEN {}
        ELSE (IF stats.orders > 0 THEN {stats.orders} ELSE {})
             \cup (IF recent.orders > 0 THEN {recent.orders} ELSE {})
             \cup (IF /\ stats.orders > 0 /\ stats.revenue > 0
                      /\ recent.orders >= MinRecentOrders
                   THEN {stats.revenue} ELSE {})
             \cup (IF pr # <<>> /\ stats.revenue > 0 THEN {stats.revenue} ELSE {})

\* C25: no analyzer divides by zero: days_remaining is computed only for a
\* positive daily sales rate, discount_rate only for non-zero total_orders,
\* the AOV change only for positive aov_30d, the 7-day AOV only for a
\* positive 7-day order count, the revenue share only for positive revenue
NoZeroDenominator ==
    \A shop \in Shops :
        0 \notin (EngineDenominators(shop) \cup GeneratorDenominators(shop))

\* the engine ran for a shop whose only order in the window is older than
\* seven days, free of charge and sells zero units of a product: the product
\* passes the P50 filter with a daily rate of zero, aov_30d and the total
\* revenue are zero and no order is recent
NoZeroDenominatorWitness ==
    /\ EngineRan("s1")
    /\ SalesSample("s1") = <<0>>
    /\ OrderStats(orders, "s1", now - ThirtyDays) = [orders |-> 1, revenue |-> 0]
    /\ OrderStats(orders, "s1", now - SevenDays).orders = 0
    /\ ProductRevenue(WindowItems(orders, "s1", now - ThirtyDays), <<>>) # <<>>

(***************************************************************************)
(* The dismiss endpoint with its response, the demo insight included.      *)
(***************************************************************************)
\* UUID("00000000-0000-0000-0000-000000000099"), the id of the demo insight;
\* no stored row has it (ids are uuid4 values)
DemoInsightId == 99

\* a variant without the check of insight.dismissed_at
DismissResponseAgain(rows, id, t) ==
    LET at == RowOf(rows, id)
        k == CHOOSE j \in at : TRUE
    IN  IF id = DemoInsightId THEN [status |-> 200, rows |-> rows]
        ELSE IF at = {} THEN [status |-> 404, rows |-> rows]
        ELSE [status |-> 200, rows |-> [rows EXCEPT ![k].dismissed_at = t]]

\* dismiss_insight with a database session: the status of the response and
\* the rows afterwards
DismissResponse(rows, id, t) ==
    LET at == RowOf(rows, id)
        k == CHOOSE j \in at : TRUE
    IN  IF id = DemoInsightId THEN [status |-> 200, rows |-> rows]
        ELSE IF at = {} THEN [status |-> 404, rows |-> rows]
        ELSE IF rows[k].dismissed_at # None THEN [status |-> 400, rows |-> rows]
        ELSE [status |-> 200, rows |-> [rows EXCEPT ![k].dismissed_at = t]]

\* POST /{insight_id}/dismiss as a request of its own: get_db_session commits
\* after the response, or rolls back when the handler raised
DismissInsightRequest(id) ==
    /\ session = "closed"
    /\ \E r \in {DismissResponse(insights, id, now)} :
          /\ insights' = r.rows
          /\ last' = [op |-> "dismiss", shop |-> NoId, failAt |-> "none",
                      escaped |-> r.status # 200, ret |-> r.status,
                      types |-> <<>>, id |-> id]
    /\ committed' = insights'
    /\ UNCHANGED <<now, orders, products, session>>

NextDismiss ==
    \/ \E shop \in ClockShops : SyncShopData(shop)
    \/ \E shop \in ClockShops : GenerateInsights(shop, "none")
    \/ Commit
    \/ Rollback
    \/ Tick
    \/ \E id \in 1..(Len(insights) + 1) \cup {DemoInsightId} :
          DismissInsightRequest(id)

SpecDismiss == Init /\ [][NextDismiss]_vars

\* the step is a dismiss request for the id
DismissStep(id) == last'.op = "dismiss" /\ last'.id = id

\* no field of any row changes and no row is added or removed
RowsUntouched == insights' = insights /\ committed' = insights

\* the request set dismissed_at of row k and nothing else
DismissedOnly(k) ==
    /\ insights[k].dismissed_at = None
    /\ insights'[k].dismissed_at = now
    /\ insights'[k].dismissed_at # None
    /\ insights' = [insights EXCEPT ![k].dismissed_at = now]

\* what the endpoint does with the ids of stored rows: a stored undismissed
\* insight gets dismissed_at, a dismissed one is rejected with 400, and a
\* dismissed_at that is set never changes again
DismissKnown ==
    /\ \A k \in 1..Len(insights) :
          DismissStep(insights[k].id) =>
              IF insights[k].dismissed_at = None
              THEN last'.ret = 200 /\ DismissedOnly(k)
              ELSE last'.ret = 400 /\ RowsUntouched
    /\ \A k \in 1..Len(insights) :
          (insights[k].dismissed_at # None /\ k <= Len(insights')
              /\ insights'[k].id = insights[k].id) =>
              insights'[k].dismissed_at = insights[k].dismissed_at

\* C26: the dismiss endpoint sets dismissed_at at most once per insight: an
\* existing undismissed insight gets dismissed_at, an insight already
\* dismissed is rejected with 400 and left unchanged, and an unknown id is
\* rejected with 404 and no state change
DismissOnceOr404 ==
    [][/\ DismissKnown
       /\ \A id \in 1..(Len(insights) + 1) \cup {DemoInsightId} :
             (DismissStep(id) /\ RowOf(insights, id) = {}) =>
                 last'.ret = 404 /\ RowsUntouched]_vars

\* C26 as the code has it: the same, except that the id of the demo insight
\* is answered with 200 and no state change instead of 404
DismissOnceOr404ExceptDemo ==
    [][/\ DismissKnown
       /\ \A id \in 1..(Len(insights) + 1) \cup {DemoInsightId} :
             (DismissStep(id) /\ RowOf(insights, id) = {}) =>
                 /\ RowsUntouched
                 /\ last'.ret = IF id = DemoInsightId THEN 200 ELSE 404]_vars

\* a dismissed insight was asked to be dismissed again on a later day and the
\* request was rejected with 400
DismissOnceWitness ==
    /\ last.op = "dismiss"
    /\ last.ret = 400
    /\ \E k \in 1..Len(insights) :
          /\ insights[k].id = last.id
          /\ insights[k].dismissed_at # None
          /\ insights[k].dismissed_at < now

\* the types whose condition holds on the shop's data
FiringTypes(shop) ==
    LET cs == Candidates(orders, products, shop, now)
    IN  {cs[i].type : i \in 1..Len(cs)}

\* C27: a generate_insights pass changes only the insights of the types whose
\* condition fired in the pass: an undismissed insight of a type that does
\* not fire is left entirely unchanged, neither refreshed nor dismissed nor
\* removed
OnlyFiringTypesChange ==
    [][GenStep =>
        \A k \in 1..Len(insights) :
            (/\ insights[k].dismissed_at = None
             /\ insights[k].shop_id = last'.shop
             /\ insights[k].type \notin FiringTypes(last'.shop))
                => /\ k <= Len(insights')
                   /\ insights'[k] = insights[k]
    ]_vars

\* a pass that ran to its end reconciled a candidate and left alone a
\* committed undismissed insight of the shop whose type no longer fires
OnlyFiringTypesChangeWitness ==
    /\ last.op = "gen" /\ last.failAt = "none" /\ last.ret >= 1
    /\ \E k \in 1..Len(committed) :
          /\ committed[k].dismissed_at = None
          /\ committed[k].shop_id = last.shop
          /\ committed[k].type \notin FiringTypes(last.shop)
          /\ insights[k] = committed[k]

\* the candidates a pass reconciled before it ended
Reconciled(types, shop) ==
    [i \in 1..Len(types) |-> CandidateOf(types[i], orders, products, shop, now)]

EmittedCount(type) ==
    Cardinality({i \in 1..Len(last.types) : last.types[i] = type})

\* C29: the overstock analyzer emits no candidate when at most 5 products
\* have positive inventory, and in general at most n - 1 - floor(0.8 n), n
\* being the number of products with positive inventory
OverstockAtMost ==
    \A shop \in Shops :
        (last.op = "engine" /\ last.shop = shop) =>
            LET n == Len(InventorySample(shop))
            IN  /\ n <= 5 => EmittedCount(OVERSTOCK) = 0
                /\ n >= 1 => EmittedCount(OVERSTOCK) <= n - 1 - ((n * 8) \div 10)

\* the engine ran for a shop with exactly five products in stock, one of
\* them with more stock than the others and no sales, and flagged none
OverstockAtMostWitness ==
    /\ EngineRan("s1")
    /\ Len(InventorySample("s1")) = 5
    /\ InventorySample("s1")[4] < InventorySample("s1")[5]
    /\ ProductSalesSample("s1")[1] = 0
    /\ EmittedCount(OVERSTOCK) = 0

(***************************************************************************)
(* trigger_sync and the background task sync_shop_data with the shop row.  *)
(* Here the variable committed holds the shops table as committed (for     *)
(* each shop its sync_status and last_sync_at) and session maps each shop  *)
(* to the state of its background task.                                    *)
(***************************************************************************)
\* what happens in a run: nothing raises; the Shopify client raises while
\* the products or the orders are fetched; a statement of the product or of
\* the order upsert raises in the database
SyncFailures ==
    {"none", "api_products", "api_orders", "db_products", "db_orders"}

\* the exception was raised by a statement of the session: its transaction
\* is aborted and every further statement of the session raises
AbortsTransaction(failure) == failure \in {"db_products", "db_orders"}

InitSync ==
    /\ now = StartDay
    /\ orders = <<>>
    /\ products = <<>>
    /\ insights = <<>>
    /\ committed = [shop \in Shops |->
                       [sync_status |-> "pending", last_sync_at |-> None]]
    /\ session = [shop \in Shops |-> "idle"]
    /\ last = Outcome("env")

\* POST /shops/{shop_id}/sync: update_sync_status(shop, "syncing"), then the
\* task is queued
TriggerSync(shop) ==
    /\ session[shop] = "idle"
    /\ committed' = [committed EXCEPT ![shop].sync_status = "syncing"]
    /\ session' = [session EXCEPT ![shop] = "queued"]
    /\ last' = Outcome("env")
    /\ UNCHANGED <<now, orders, products, insights>>

\* the shop row sync_shop_data leaves committed: completed with the time of
\* the run; failed when the handler of the exception could flush; unchanged
\* when that flush raised too and get_db_context rolled back
ShopRowAfter(row, failure, t) ==
    IF failure = "none"
    THEN [row EXCEPT !.sync_status = "completed", !.last_sync_at = t]
    ELSE IF AbortsTransaction(failure) THEN row
    ELSE [row EXCEPT !.sync_status = "failed"]

\* sync_shop_data(shop_id) as the background task of the shop
RunSyncShopData(shop, failure) ==
    /\ session[shop] = "queued"
    /\ \E feed \in ShopifyProducts, n \in Pulls :
          /\ feed[1].shop_id = shop
          /\ products' = IF failure \in {"none", "api_orders"}
                         THEN UpsertProducts(products, feed) ELSE products
          /\ orders' = IF failure = "none"
                       THEN UpsertOrders(orders, PulledOrders(shop, n))
                       ELSE orders
    /\ committed' = [committed EXCEPT
                         ![shop] = ShopRowAfter(committed[shop], failure, now)]
    /\ session' = [session EXCEPT ![shop] = "idle"]
    /\ last' = [Outcome("sync") EXCEPT
                    !.shop = shop,
                    !.failAt = failure,
                    !.escaped = AbortsTransaction(failure)]
    /\ UNCHANGED <<now, insights>>

\* time passes between two syncs
TickSync ==
    /\ now + JumpDays <= StartDay + MaxTicks * JumpDays
    /\ now' = now + JumpDays
    /\ last' = Outcome("env")
    /\ UNCHANGED <<orders, products, insights, committed, session>>

NextSync ==
    \/ \E shop \in ClockShops : TriggerSync(shop)
    \/ \E shop \in ClockShops, failure \in SyncFailures :
          RunSyncShopData(shop, failure)
    \/ TickSync

SpecSync == InitSync /\ [][NextSync]_vars

\* the step is a run of sync_shop_data for the shop, started with the status
\* syncing
SyncRun(shop) ==
    /\ last'.op = "sync" /\ last'.shop = shop
    /\ session[shop] = "queued"
    /\ committed[shop].sync_status = "syncing"

\* C30: every run of sync_shop_data started after trigger_sync set the
\* status to syncing ends with the status completed or failed, never
\* syncing; completed and a new last_sync_at are set only when the product
\* sync and the order sync finished without exception, and on any exception
\* the status is failed and last_sync_at is unchanged
SyncEndsCompletedOrFailed ==
    [][\A shop \in Shops :
          SyncRun(shop) =>
              /\ committed'[shop].sync_status \in {"completed", "failed"}
              /\ IF last'.failAt = "none"
                 THEN /\ committed'[shop].sync_status = "completed"
                      /\ committed'[shop].last_sync_at = now
                 ELSE /\ committed'[shop].sync_status = "failed"
                      /\ committed'[shop].last_sync_at = committed[shop].last_sync_at
    ]_vars

====
